---- MODULE Spec2Model ----
(***************************************************************************)
(* A model of the scoring engine of github-crypto-inspector: the three     *)
(* analyzers (fork originality, activity, security), the v2 analyze route  *)
(* in its two variants (with and without the AI code step), the v1 analyze *)
(* route's score and its pow_scan metric (the signature catalog scanner    *)
(* and the template similarity ratio), and the compare page that analyzes  *)
(* a batch of repositories concurrently.                                   *)
(*                                                                         *)
(* Strings the code inspects are sequences of symbols: a repository input  *)
(* is a sequence of characters, a flag message a sequence of words.        *)
(* JavaScript numbers are integers here; every Math.round of the code is   *)
(* an exact half-up integer division (RoundDiv), which agrees with IEEE    *)
(* double arithmetic on all the values the model draws.                    *)
(***************************************************************************)
EXTENDS Integers, Sequences, FiniteSets, TLC

VARIABLES
    rq,          \* one invocation of the v2 route: the handler's locals and position
    reposInput,  \* compare page: text of the textarea
    loading,     \* compare page: loading flag
    error,       \* compare page: error banner (Null when none)
    results,     \* compare page: published results list
    units,       \* compare page: the requests of the batch in flight
    arg,         \* argument of a function applied in isolation
    ret          \* its result (None before the call)

vars == <<rq, reposInput, loading, error, results, units, arg, ret>>

pageVars == <<reposInput, loading, error, results, units>>

(***************************************************************************)
(* Bounds of the model.                                                    *)
(***************************************************************************)
MaxUniqueCommits == 26
MaxFiles == 10

(***************************************************************************)
(* Generic helpers.                                                        *)
(***************************************************************************)
Null == [kind |-> "null"]
None == [kind |-> "none"]
Throw == [kind |-> "throw"]

Min(a, b) == IF a < b THEN a ELSE b
Max(a, b) == IF a > b THEN a ELSE b

\* Math.round(a / b) for b > 0: nearest integer, halves towards +infinity.
RoundDiv(a, b) == (2 * a + b) \div (2 * b)

\* JavaScript property reads on an object that may lack the property.
Has(r, f) == f \in DOMAIN r
Truthy(r, f) == Has(r, f) /\ r[f] = TRUE
NumTruthy(r, f) == Has(r, f) /\ r[f] # 0

(***************************************************************************)
(* Flag and message text: a message is the sequence of its words.          *)
(* toLowerCase acts word by word; includes is a contiguous sub-sequence.   *)
(***************************************************************************)
toLowerCase(w) ==
    CASE w = "Only" -> "only"
      [] w = "Likely" -> "likely"
      [] w = "High" -> "high"
      [] w = "Some" -> "some"
      [] w = "Significant" -> "significant"
      [] w = "Original" -> "original"
      [] w = "Fork" -> "fork"
      [] w = "Inactive" -> "inactive"
      [] w = "No" -> "no"
      [] w = "Single" -> "single"
      [] w = "Low" -> "low"
      [] w = "Less" -> "less"
      [] w = "Dominated" -> "dominated"
      [] w = "Solidity" -> "solidity"
      [] w = "AI-generated" -> "ai-generated"
      [] OTHER -> w

LowerMsg(m) == [i \in 1..Len(m) |-> toLowerCase(m[i])]

includes(m, kw) ==
    \E i \in 0..(Len(m) - Len(kw)) :
        \A j \in 1..Len(kw) : m[i + j] = kw[j]

(***************************************************************************)
(* octokit-client: computeForkOriginality.  cmp is the outcome of the      *)
(* compare call: it throws, or gives ahead_by and the file list, of which  *)
(* only the length and the number of modified or added files are read.     *)
(***************************************************************************)
computeForkOriginality_NoClamp(cmp) ==
    IF cmp.outcome = "throws"
    THEN [originalityScore |-> 10, uniqueCommits |-> 0,
          totalFiles |-> 0, modifiedFiles |-> 0]
    ELSE LET uniqueCommits == cmp.ahead_by
             totalFiles == cmp.totalFiles
             modifiedFiles == cmp.modifiedFiles
             commitPoints == IF uniqueCommits > 0 THEN uniqueCommits * 2 ELSE 0
             rounded == IF totalFiles > 0
                        THEN commitPoints + RoundDiv(modifiedFiles * 50, totalFiles)
                        ELSE commitPoints
         IN [originalityScore |-> rounded,
             uniqueCommits |-> uniqueCommits,
             totalFiles |-> totalFiles,
             modifiedFiles |-> modifiedFiles]

\* Math.floor in place of Math.round.
computeForkOriginality_Floor(cmp) ==
    IF cmp.outcome = "throws"
    THEN [originalityScore |-> 10, uniqueCommits |-> 0,
          totalFiles |-> 0, modifiedFiles |-> 0]
    ELSE LET commitPoints == IF cmp.ahead_by > 0 THEN Min(cmp.ahead_by * 2, 50) ELSE 0
             floored == IF cmp.totalFiles > 0
                        THEN commitPoints + ((cmp.modifiedFiles * 50) \div cmp.totalFiles)
                        ELSE commitPoints
         IN [originalityScore |-> Min(floored, 100),
             uniqueCommits |-> cmp.ahead_by,
             totalFiles |-> cmp.totalFiles,
             modifiedFiles |-> cmp.modifiedFiles]

computeForkOriginality(cmp) ==
    IF cmp.outcome = "throws"
    THEN [originalityScore |-> 10, uniqueCommits |-> 0,
          totalFiles |-> 0, modifiedFiles |-> 0]
    ELSE LET uniqueCommits == cmp.ahead_by
             totalFiles == cmp.totalFiles
             modifiedFiles == cmp.modifiedFiles
             commitPoints == IF uniqueCommits > 0 THEN Min(uniqueCommits * 2, 50) ELSE 0
             \* Math.round(commitPoints + changeRatio * 50), commitPoints an integer
             rounded == IF totalFiles > 0
                        THEN commitPoints + RoundDiv(modifiedFiles * 50, totalFiles)
                        ELSE commitPoints
         IN [originalityScore |-> Min(rounded, 100),
             uniqueCommits |-> uniqueCommits,
             totalFiles |-> totalFiles,
             modifiedFiles |-> modifiedFiles]

(***************************************************************************)
(* fork-analyzer: analyzeFork.  The input is what the GitHub calls give:   *)
(* whether fetchRepoDetails throws, the fork flag, whether a parent is     *)
(* reported, and the compare outcome.                                      *)
(***************************************************************************)
HighRiskMessage(score) ==
    <<"Only", ToString(score), "%", "original", "-", "Likely", "lazy", "fork",
      "with", "minimal", "changes", ".", "High", "scam", "risk", "!">>
MediumRiskMessage(score) ==
    <<ToString(score), "%", "original", "-", "Some", "modifications", "but",
      "mostly", "forked", "code">>
LowRiskMessage(score) ==
    <<ToString(score), "%", "original", "-", "Significant", "modifications", ",",
      "likely", "built", "on", "top", "of", "parent">>
NotAForkMessage == <<"Original", "repository", "-", "not", "a", "fork">>
NoParentMessage ==
    <<"Fork", "detected", "but", "parent", "information", "unavailable">>

\* The if-chain of analyzeFork that sets risk and message together.
ForkVerdict_LowCut(score) ==
    IF score < 10 THEN [risk |-> "high", message |-> HighRiskMessage(score)]
    ELSE IF score < 50 THEN [risk |-> "medium", message |-> MediumRiskMessage(score)]
    ELSE [risk |-> "low", message |-> LowRiskMessage(score)]

ForkVerdict(score) ==
    IF score < 20 THEN [risk |-> "high", message |-> HighRiskMessage(score)]
    ELSE IF score < 50 THEN [risk |-> "medium", message |-> MediumRiskMessage(score)]
    ELSE [risk |-> "low", message |-> LowRiskMessage(score)]

analyzeFork_Rethrow(in) ==
    IF in.details = "throws" THEN Throw
    ELSE IF ~in.fork
    THEN [kind |-> "result", isFork |-> FALSE, originalityScore |-> 100,
          risk |-> "low", message |-> NotAForkMessage]
    ELSE IF ~in.parent
    THEN [kind |-> "result", isFork |-> TRUE, originalityScore |-> 50,
          risk |-> "medium", message |-> NoParentMessage]
    ELSE IF in.compare.outcome = "throws" THEN Throw
    ELSE LET originality == computeForkOriginality(in.compare)
         IN [kind |-> "result", isFork |-> TRUE, parent |-> TRUE,
             originalityScore |-> originality.originalityScore,
             uniqueCommits |-> originality.uniqueCommits,
             totalFiles |-> originality.totalFiles,
             modifiedFiles |-> originality.modifiedFiles,
             risk |-> ForkVerdict(originality.originalityScore).risk,
             message |-> ForkVerdict(originality.originalityScore).message]

analyzeFork(in) ==
    IF in.details = "throws" THEN Throw
    ELSE IF ~in.fork
    THEN [kind |-> "result", isFork |-> FALSE, originalityScore |-> 100,
          risk |-> "low", message |-> NotAForkMessage]
    ELSE IF ~in.parent
    THEN [kind |-> "result", isFork |-> TRUE, originalityScore |-> 50,
          risk |-> "medium", message |-> NoParentMessage]
    ELSE LET originality == computeForkOriginality(in.compare)
         IN [kind |-> "result", isFork |-> TRUE, parent |-> TRUE,
             originalityScore |-> originality.originalityScore,
             uniqueCommits |-> originality.uniqueCommits,
             totalFiles |-> originality.totalFiles,
             modifiedFiles |-> originality.modifiedFiles,
             risk |-> ForkVerdict(originality.originalityScore).risk,
             message |-> ForkVerdict(originality.originalityScore).message]

\* The compare outcomes: a throw, or ahead_by and a file list.
NoCompare == [outcome |-> "none", ahead_by |-> 0, totalFiles |-> 0, modifiedFiles |-> 0]
CompareThrows == [outcome |-> "throws", ahead_by |-> 0, totalFiles |-> 0, modifiedFiles |-> 0]
CompareOutcomes ==
    {CompareThrows} \cup
    {[outcome |-> "ok", ahead_by |-> u, totalFiles |-> t, modifiedFiles |-> m] :
        u \in 0..MaxUniqueCommits, t \in 0..MaxFiles, m \in 0..MaxFiles}

\* The compare call is made only for a fork with a parent.
ForkInputs ==
    {[details |-> "throws", fork |-> FALSE, parent |-> FALSE, compare |-> NoCompare],
     [details |-> "ok", fork |-> FALSE, parent |-> FALSE, compare |-> NoCompare],
     [details |-> "ok", fork |-> TRUE, parent |-> FALSE, compare |-> NoCompare]} \cup
    {[details |-> "ok", fork |-> TRUE, parent |-> TRUE, compare |-> c] :
        c \in {c \in CompareOutcomes : c.modifiedFiles <= c.totalFiles}}

(***************************************************************************)
(* octokit-client: one page of at most PER_PAGE items is fetched.          *)
(***************************************************************************)
PER_PAGE == 100

fetchCommits_AllPages(since) == since

\* fetchCommits: the number of commits returned for `since` commits in the window.
fetchCommits(since) == Min(since, PER_PAGE)

\* fetchContributors: the first page of the contributor list.
fetchContributors(all) == SubSeq(all, 1, Min(Len(all), PER_PAGE))

(***************************************************************************)
(* activity-analyzer: analyzeActivity.  The input gives the outcome of the *)
(* GitHub calls (any of them throwing makes the analyzer throw), whole     *)
(* days since pushed_at, whole weeks since created_at, the number of       *)
(* commits in the last six months and the contribution counts of the       *)
(* contributors, largest first.  commitsPerWeek is the fraction            *)
(* commits / weeks: comparisons with it are cross-multiplied.  The weekly  *)
(* commit history is not modelled.                                         *)
(***************************************************************************)
InactiveFlag == <<"Inactive", ":", "No", "commits", "in", "6", "+", "months">>
SingleContributorFlag ==
    <<"Single", "contributor", ":", "High", "centralization", "risk">>
LowActivityFlag ==
    <<"Low", "activity", ":", "Less", "than", "1", "commit", "per", "2", "weeks">>
DominatedFlag == <<"Dominated", "by", "single", "contributor">>

Clamp0to100_Off(x) == x

\* Math.max(0, Math.min(100, x))
Clamp0to100(x) == Max(0, Min(100, x))

analyzeActivity_EveryIf(in) ==
    IF in.outcome = "throws" THEN Throw
    ELSE LET commits == fetchCommits(in.commitsSince)
             contributors == fetchContributors(in.contributors)
             daysSinceLastCommit == in.daysSincePush
             weeks == Min(26, Max(1, in.weeksSinceCreation))
             recency == (IF daysSinceLastCommit < 7 THEN 20 ELSE 0)
                        + (IF daysSinceLastCommit < 30 THEN 10 ELSE 0)
                        + (IF daysSinceLastCommit > 180 THEN -20 ELSE 0)
             velocity == (IF commits > 5 * weeks THEN 15 ELSE 0)
                         + (IF commits > 2 * weeks THEN 10 ELSE 0)
                         + (IF 2 * commits < weeks THEN -15 ELSE 0)
             breadth == (IF Len(contributors) > 10 THEN 15 ELSE 0)
                        + (IF Len(contributors) > 5 THEN 10 ELSE 0)
                        + (IF Len(contributors) = 1 THEN -20 ELSE 0)
         IN [kind |-> "result",
             totalCommits |-> commits,
             commitsPerWeekTenths |-> RoundDiv(commits * 10, weeks),
             daysSinceLastCommit |-> daysSinceLastCommit,
             contributorCount |-> Len(contributors),
             healthScore |-> Clamp0to100(50 + recency + velocity + breadth),
             flags |-> <<>>]

analyzeActivity_OneFlag(in) ==
    IF in.outcome = "throws" THEN Throw
    ELSE LET commits == fetchCommits(in.commitsSince)
             contributors == fetchContributors(in.contributors)
             daysSinceLastCommit == in.daysSincePush
             weeks == Min(26, Max(1, in.weeksSinceCreation))
             recency == IF daysSinceLastCommit < 7 THEN 20
                        ELSE IF daysSinceLastCommit < 30 THEN 10
                        ELSE IF daysSinceLastCommit > 180 THEN -20 ELSE 0
             velocity == IF commits > 5 * weeks THEN 15
                         ELSE IF commits > 2 * weeks THEN 10
                         ELSE IF 2 * commits < weeks THEN -15 ELSE 0
             breadth == IF Len(contributors) > 10 THEN 15
                        ELSE IF Len(contributors) > 5 THEN 10
                        ELSE IF Len(contributors) = 1 THEN -20 ELSE 0
         IN [kind |-> "result",
             totalCommits |-> commits,
             commitsPerWeekTenths |-> RoundDiv(commits * 10, weeks),
             daysSinceLastCommit |-> daysSinceLastCommit,
             contributorCount |-> Len(contributors),
             healthScore |-> Clamp0to100(50 + recency + velocity + breadth),
             flags |-> IF daysSinceLastCommit > 180 THEN <<InactiveFlag>>
                       ELSE IF Len(contributors) = 1 THEN <<SingleContributorFlag>>
                       ELSE IF 2 * commits < weeks THEN <<LowActivityFlag>>
                       ELSE IF Len(contributors) > 0
                               /\ 5 * contributors[1] > 4 * commits
                       THEN <<DominatedFlag>> ELSE <<>>]

analyzeActivity(in) ==
    IF in.outcome = "throws" THEN Throw
    ELSE LET commits == fetchCommits(in.commitsSince)
             contributors == fetchContributors(in.contributors)
             daysSinceLastCommit == in.daysSincePush
             weeksSinceCreation == Max(1, in.weeksSinceCreation)
             weeks == Min(26, weeksSinceCreation)
             \* commitsPerWeek = commits / weeks
             recency == IF daysSinceLastCommit < 7 THEN 20
                        ELSE IF daysSinceLastCommit < 30 THEN 10
                        ELSE IF daysSinceLastCommit > 180 THEN -20 ELSE 0
             velocity == IF commits > 5 * weeks THEN 15
                         ELSE IF commits > 2 * weeks THEN 10
                         ELSE IF 2 * commits < weeks THEN -15 ELSE 0
             breadth == IF Len(contributors) > 10 THEN 15
                        ELSE IF Len(contributors) > 5 THEN 10
                        ELSE IF Len(contributors) = 1 THEN -20 ELSE 0
             healthScore == Clamp0to100(50 + recency + velocity + breadth)
             flags ==
                 (IF daysSinceLastCommit > 180 THEN <<InactiveFlag>> ELSE <<>>) \o
                 (IF Len(contributors) = 1 THEN <<SingleContributorFlag>> ELSE <<>>) \o
                 (IF 2 * commits < weeks THEN <<LowActivityFlag>> ELSE <<>>) \o
                 (IF Len(contributors) > 0 /\ 5 * contributors[1] > 4 * commits
                  THEN <<DominatedFlag>> ELSE <<>>)
         IN [kind |-> "result",
             totalCommits |-> commits,
             \* Math.round(commitsPerWeek * 10) / 10, kept in tenths
             commitsPerWeekTenths |-> RoundDiv(commits * 10, weeks),
             daysSinceLastCommit |-> daysSinceLastCommit,
             contributorCount |-> Len(contributors),
             healthScore |-> healthScore,
             flags |-> flags]

\* Contribution counts, largest first: n contributors, the first with `top`.
Contributors(n, top) == [i \in 1..n |-> IF i = 1 THEN top ELSE 1]

MaxDays == 400
MaxWeeks == 27
MaxCommitsSince == 120
MaxContributors == 12
MaxTop == 81

DaySamples == {0, 2, 6, 7, 29, 30, 180, 181, MaxDays}
WeekSamples == {0, 2, 19, 20, 23, 24, 26, MaxWeeks}
CommitSamples == {0, 1, 3, 5, 6, 12, 13, 52, 53, 99, 100, 120, MaxCommitsSince}
ContributorSamples ==
    {<<>>} \cup
    {Contributors(n, top) : n \in {1, 5, 6, 10, 11, 12, MaxContributors},
                            top \in {1, 4, 80, MaxTop}}

ActivityInputs ==
    {[outcome |-> "throws", daysSincePush |-> 0, weeksSinceCreation |-> 0,
      commitsSince |-> 0, contributors |-> <<>>]} \cup
    {[outcome |-> "ok", daysSincePush |-> d, weeksSinceCreation |-> w,
      commitsSince |-> c, contributors |-> k] :
        d \in DaySamples, w \in WeekSamples, c \in CommitSamples,
        k \in ContributorSamples}

(***************************************************************************)
(* security-analyzer: analyzeSecurity.  fetchSecurityIssues, fetchLanguages*)
(* and checkVulnerabilities catch their own errors; fetchRepoDetails       *)
(* throwing makes the analyzer throw.  The input gives the numbers of open *)
(* and closed security-labelled issues, the repository's open-issue count, *)
(* whether a license is declared, whether Solidity files and package.json  *)
(* were found and whether any language is reported.                        *)
(***************************************************************************)
UnresolvedFlag(n) == <<ToString(n), "unresolved", "security", "issue(s)">>
SolidityFlag ==
    <<"Solidity", "code", "detected", "but", "no", "package.json", "for",
      "dependency", "tracking">>
OpenIssuesFlag ==
    <<"High", "number", "of", "open", "issues", "-", "may", "indicate", "poor",
      "maintenance">>
NoLicenseFlag ==
    <<"No", "license", "specified", "-", "legal/usage", "concerns">>
ResolvedRecommendation(n) ==
    <<"Team", "has", "resolved", ToString(n), "security", "issues", "previously">>
LicenseRecommendation == <<"Licensed", "under", "<license>">>
LanguageRecommendation == <<"Primary", "language", ":", "<language>">>

analyzeSecurity_AtLeast(in) ==
    IF in.outcome = "throws" THEN Throw
    ELSE LET open == in.openSecurity
             closed == in.closedSecurity
             s1 == IF open >= 5 THEN 70 - 30 ELSE IF open > 0 THEN 70 - 15 ELSE 70
             s2 == IF closed >= open * 2 THEN s1 + 15 ELSE s1
             s3 == IF in.open_issues_count >= 50 THEN s2 - 10 ELSE s2
             s4 == IF ~in.license THEN s3 - 10 ELSE s3
         IN [kind |-> "result",
             securityIssues |-> [total |-> open + closed, open |-> open,
                                 closed |-> closed],
             hasSolidityCode |-> in.hasSolidityFiles,
             securityScore |-> Clamp0to100(s4),
             flags |-> <<>>,
             recommendations |-> <<>>]

analyzeSecurity(in) ==
    IF in.outcome = "throws" THEN Throw
    ELSE LET open == in.openSecurity
             closed == in.closedSecurity
             s0 == 70
             s1 == IF open > 5 THEN s0 - 30 ELSE IF open > 0 THEN s0 - 15 ELSE s0
             s2 == IF closed > open * 2 THEN s1 + 15 ELSE s1
             s3 == IF in.open_issues_count > 50 THEN s2 - 10 ELSE s2
             s4 == IF ~in.license THEN s3 - 10 ELSE s3
             securityScore == Clamp0to100(s4)
             flags ==
                 (IF open > 0 THEN <<UnresolvedFlag(open)>> ELSE <<>>) \o
                 (IF in.hasSolidityFiles /\ ~in.hasPackageJson
                  THEN <<SolidityFlag>> ELSE <<>>) \o
                 (IF in.open_issues_count > 100 THEN <<OpenIssuesFlag>> ELSE <<>>) \o
                 (IF ~in.license THEN <<NoLicenseFlag>> ELSE <<>>)
             recommendations ==
                 (IF closed > 0 THEN <<ResolvedRecommendation(closed)>> ELSE <<>>) \o
                 (IF in.license THEN <<LicenseRecommendation>> ELSE <<>>) \o
                 (IF in.hasLanguages THEN <<LanguageRecommendation>> ELSE <<>>)
         IN [kind |-> "result",
             securityIssues |-> [total |-> open + closed, open |-> open,
                                 closed |-> closed],
             hasSolidityCode |-> in.hasSolidityFiles,
             securityScore |-> securityScore,
             flags |-> flags,
             recommendations |-> recommendations]

MaxOpenSecurity == 7
MaxClosedSecurity == 15
MaxOpenIssues == 101

SecurityInputs ==
    {[outcome |-> "throws", openSecurity |-> 0, closedSecurity |-> 0,
      open_issues_count |-> 0, license |-> FALSE, hasSolidityFiles |-> FALSE,
      hasPackageJson |-> FALSE, hasLanguages |-> FALSE]} \cup
    {[outcome |-> "ok", openSecurity |-> o, closedSecurity |-> c,
      open_issues_count |-> n, license |-> l, hasSolidityFiles |-> s,
      hasPackageJson |-> p, hasLanguages |-> g] :
        o \in 0..MaxOpenSecurity, c \in 0..MaxClosedSecurity,
        n \in {0, 50, 51, 100, MaxOpenIssues},
        l \in BOOLEAN, s \in BOOLEAN, p \in BOOLEAN, g \in BOOLEAN}

(***************************************************************************)
(* Idle values of the parts a specification does not exercise.             *)
(***************************************************************************)
IdleRq == [pc |-> "idle"]

PageIdle ==
    /\ reposInput = <<>>
    /\ loading = FALSE
    /\ error = Null
    /\ results = <<>>
    /\ units = <<>>

(***************************************************************************)
(* SpecAnalyzers: each analyzer applied to every input of its input set.   *)
(***************************************************************************)
InitAnalyzers ==
    /\ arg \in [fn : {"analyzeFork"}, in : ForkInputs] \cup
               [fn : {"analyzeActivity"}, in : ActivityInputs] \cup
               [fn : {"analyzeSecurity"}, in : SecurityInputs]
    /\ ret = None
    /\ rq = IdleRq
    /\ PageIdle

CallAnalyzeFork ==
    /\ ret = None
    /\ arg.fn = "analyzeFork"
    /\ ret' = analyzeFork(arg.in)
    /\ UNCHANGED <<arg, rq, pageVars>>

CallAnalyzeActivity ==
    /\ ret = None
    /\ arg.fn = "analyzeActivity"
    /\ ret' = analyzeActivity(arg.in)
    /\ UNCHANGED <<arg, rq, pageVars>>

CallAnalyzeSecurity ==
    /\ ret = None
    /\ arg.fn = "analyzeSecurity"
    /\ ret' = analyzeSecurity(arg.in)
    /\ UNCHANGED <<arg, rq, pageVars>>

NextAnalyzers == CallAnalyzeFork \/ CallAnalyzeActivity \/ CallAnalyzeSecurity

SpecAnalyzers == InitAnalyzers /\ [][NextAnalyzers]_vars

(***************************************************************************)
(* Properties of the analyzers, checked under SpecAnalyzers.               *)
(***************************************************************************)
ForkCalled == arg.fn = "analyzeFork" /\ ret # None
ActivityCalled == arg.fn = "analyzeActivity" /\ ret # None
SecurityCalled == arg.fn = "analyzeSecurity" /\ ret # None

\* C7: for every input to the fork analysis (non-fork, fork without parent,
\* fork with parent for any uniqueCommits >= 0 and 0 <= modifiedFiles <=
\* totalFiles, fork whose comparison fails) originalityScore is in [0,100];
\* for a non-fork repository it is exactly 100 with risk low.
C7_OriginalityInRange ==
    (ForkCalled /\ arg.in.details = "ok") =>
        /\ ret.kind = "result"
        /\ ret.originalityScore >= 0
        /\ ret.originalityScore <= 100
        /\ (~arg.in.fork =>
                ret.originalityScore = 100 /\ ret.risk = "low" /\ ~ret.isFork)

\* A fork whose commits and file changes both reach their caps.
C7_Witness ==
    /\ ForkCalled
    /\ arg.in.fork /\ arg.in.parent
    /\ arg.in.compare.outcome = "ok"
    /\ arg.in.compare.ahead_by > 25
    /\ arg.in.compare.totalFiles > 0
    /\ arg.in.compare.modifiedFiles = arg.in.compare.totalFiles
    /\ ret.originalityScore = 100

\* C8: for a fork with a resolvable parent risk is a function of the
\* originality score only: high below 20, medium from 20 to 49, low from 50;
\* and a fork with 0 unique commits and 0 of 10 files modified gets
\* originalityScore 0, risk high and a message containing "scam risk".
C8_RiskFromScore ==
    (ForkCalled /\ arg.in.details = "ok" /\ arg.in.fork /\ arg.in.parent) =>
        /\ ret.kind = "result"
        /\ (ret.originalityScore < 20 => ret.risk = "high")
        /\ (ret.originalityScore >= 20 /\ ret.originalityScore < 50
                => ret.risk = "medium")
        /\ (ret.originalityScore >= 50 => ret.risk = "low")
        /\ (/\ arg.in.compare.outcome = "ok"
            /\ arg.in.compare.ahead_by = 0
            /\ arg.in.compare.totalFiles = 10
            /\ arg.in.compare.modifiedFiles = 0
            => /\ ret.originalityScore = 0
               /\ ret.risk = "high"
               /\ includes(ret.message, <<"scam", "risk">>))

\* The scenario of the claim, and a fork just below the high-risk threshold.
C8_Witness ==
    /\ ForkCalled
    /\ arg.in.fork /\ arg.in.parent
    /\ arg.in.compare.outcome = "ok"
    /\ \/ /\ arg.in.compare.ahead_by = 0
          /\ arg.in.compare.totalFiles = 10
          /\ arg.in.compare.modifiedFiles = 0
          /\ ret.risk = "high"
       \/ /\ ret.originalityScore = 19
          /\ ret.risk = "high"

\* C10: healthScore returned by analyzeActivity and securityScore returned by
\* analyzeSecurity are always in [0,100], whatever the days since the last
\* push, commits per week, contributor count, open and closed security-issue
\* counts, open-issue count and license presence.
C10_ScoresInRange ==
    /\ (ActivityCalled /\ arg.in.outcome = "ok") =>
            ret.kind = "result" /\ ret.healthScore >= 0 /\ ret.healthScore <= 100
    /\ (SecurityCalled /\ arg.in.outcome = "ok") =>
            ret.kind = "result" /\ ret.securityScore >= 0 /\ ret.securityScore <= 100

\* Every activity signal at its worst: the sum 50 - 20 - 15 - 20 is clamped to 0.
C10_Witness ==
    /\ ActivityCalled
    /\ arg.in.outcome = "ok"
    /\ arg.in.daysSincePush > 180
    /\ arg.in.commitsSince = 0
    /\ Len(arg.in.contributors) = 1
    /\ ret.healthScore = 0

\* A fork with a resolvable parent whose comparison succeeded.
ComparedFork ==
    /\ ForkCalled
    /\ arg.in.details = "ok" /\ arg.in.fork /\ arg.in.parent
    /\ arg.in.compare.outcome = "ok"

ActiveScenario ==
    /\ ActivityCalled
    /\ arg.in.outcome = "ok"
    /\ arg.in.commitsSince = 120
    /\ Len(arg.in.contributors) = 12
    /\ arg.in.daysSincePush = 2

NoCentralizationFlags ==
    \A i \in 1..Len(ret.flags) :
        ret.flags[i] # InactiveFlag /\ ret.flags[i] # SingleContributorFlag

\* C11 as stated: a repository with 120 commits in the last 6 months, 12
\* contributors and a last push 2 days ago gets healthScore 100 and neither
\* the inactivity flag nor the single-contributor flag.
C11_ScenarioScores100 ==
    ActiveScenario => ret.healthScore = 100 /\ NoCentralizationFlags

\* C11 as amended: in that scenario the analyzer reads 100 commits (one page),
\* so healthScore is 100 (velocity +15) only when the repository was created
\* less than 20 weeks ago and 95 (velocity +10) otherwise; in both cases
\* neither the inactivity flag nor the single-contributor flag is raised.
C11_ScenarioScoresByAge ==
    ActiveScenario =>
        /\ ret.totalCommits = 100
        /\ ret.healthScore = (IF arg.in.weeksSinceCreation < 20 THEN 100 ELSE 95)
        /\ NoCentralizationFlags

\* The scenario on a repository that is six months old or older.
C11_Witness ==
    /\ ActiveScenario
    /\ arg.in.weeksSinceCreation >= 26
    /\ ret.healthScore = 95

\* C12: securityScore is clamp(0, 100, 70 - (30 if more than 5 open security
\* issues, else 15 if any) + (15 if the closed security issues are more than
\* twice the open ones) - (10 if the open-issue count is above 50) - (10 if
\* no license)); 6 open security issues, none closed, at most 50 open issues
\* and no license give exactly 30.
C12_SecurityScoreFormula ==
    (SecurityCalled /\ arg.in.outcome = "ok") =>
        LET open == ret.securityIssues.open
            closed == ret.securityIssues.closed
            penalty == IF open > 5 THEN 30 ELSE IF open > 0 THEN 15 ELSE 0
            credit == IF closed > 2 * open THEN 15 ELSE 0
            backlog == IF arg.in.open_issues_count > 50 THEN 10 ELSE 0
            unlicensed == IF arg.in.license THEN 0 ELSE 10
            sum == 70 - penalty + credit - backlog - unlicensed
        IN /\ open = arg.in.openSecurity /\ closed = arg.in.closedSecurity
           /\ ret.securityScore = (IF sum < 0 THEN 0 ELSE IF sum > 100 THEN 100 ELSE sum)
           /\ (/\ open = 6 /\ closed = 0
               /\ arg.in.open_issues_count <= 50 /\ ~arg.in.license
               => ret.securityScore = 30)

\* The scenario of C12.
C12_Witness ==
    /\ SecurityCalled
    /\ arg.in.outcome = "ok"
    /\ arg.in.openSecurity = 6
    /\ arg.in.closedSecurity = 0
    /\ arg.in.open_issues_count = 50
    /\ ~arg.in.license
    /\ ret.securityScore = 30

\* C20: healthScore is clamp(0, 100, 50 + recency + velocity + breadth),
\* recency being +20 under 7 days since the last commit, +10 under 30, -20
\* over 180; velocity +15 above 5 commits per week, +10 above 2, -15 below
\* 0.5; breadth +15 above 10 contributors, +10 above 5, -20 for exactly 1;
\* each signal contributes at most one adjustment.  commitsPerWeek is the
\* number of commits read divided by min(26, weeks since creation, at least 1).
C20_HealthScoreFormula ==
    (ActivityCalled /\ arg.in.outcome = "ok") =>
        LET days == ret.daysSinceLastCommit
            commits == ret.totalCommits
            weeks == IF arg.in.weeksSinceCreation < 1 THEN 1
                     ELSE IF arg.in.weeksSinceCreation > 26 THEN 26
                     ELSE arg.in.weeksSinceCreation
            n == ret.contributorCount
            recency == CASE days < 7 -> {20}
                         [] days >= 7 /\ days < 30 -> {10}
                         [] days > 180 -> {-20}
                         [] OTHER -> {0}
            velocity == CASE commits > 5 * weeks -> {15}
                          [] commits <= 5 * weeks /\ commits > 2 * weeks -> {10}
                          [] 2 * commits < weeks -> {-15}
                          [] OTHER -> {0}
            breadth == CASE n > 10 -> {15}
                         [] n <= 10 /\ n > 5 -> {10}
                         [] n = 1 -> {-20}
                         [] OTHER -> {0}
        IN /\ days = arg.in.daysSincePush
           /\ \E r \in recency, v \in velocity, b \in breadth :
                LET sum == 50 + r + v + b
                IN ret.healthScore =
                      (IF sum < 0 THEN 0 ELSE IF sum > 100 THEN 100 ELSE sum)

\* Recent, fast and broad: one adjustment per signal, 50 + 20 + 15 + 15
\* clamped to 100, where adding every adjustment whose test passes would
\* give 50 + 30 + 25 + 25.
C20_Witness ==
    /\ ActivityCalled
    /\ arg.in.outcome = "ok"
    /\ ret.daysSinceLastCommit < 7
    /\ arg.in.weeksSinceCreation \in 1..26
    /\ ret.totalCommits > 5 * arg.in.weeksSinceCreation
    /\ ret.contributorCount > 10
    /\ ret.healthScore = 100

\* C21: each of the four activity flags is emitted exactly under its own
\* condition, whatever the other three do: inactivity iff daysSinceLastCommit
\* > 180; single contributor iff the contributor count is 1; low activity
\* iff commitsPerWeek < 0.5; "Dominated by single contributor" iff the
\* contributor list is non-empty and its first entry's contributions exceed
\* 80% of the commits read in the window.  Nothing else is in the list, no
\* flag is in it twice, and the order is the order above.
FlagEmitted(flag) == \E i \in 1..Len(ret.flags) : ret.flags[i] = flag

C21_FlagsIndependent ==
    (ActivityCalled /\ arg.in.outcome = "ok") =>
        LET weeks == IF arg.in.weeksSinceCreation < 1 THEN 1
                     ELSE IF arg.in.weeksSinceCreation > 26 THEN 26
                     ELSE arg.in.weeksSinceCreation
            list == arg.in.contributors
            inactive == ret.daysSinceLastCommit > 180
            single == ret.contributorCount = 1
            low == 2 * ret.totalCommits < weeks
            dominated == list # <<>> /\ 100 * list[1] > 80 * ret.totalCommits
            expected == <<[on |-> inactive, flag |-> InactiveFlag],
                          [on |-> single, flag |-> SingleContributorFlag],
                          [on |-> low, flag |-> LowActivityFlag],
                          [on |-> dominated, flag |-> DominatedFlag]>>
        IN /\ \A k \in 1..4 : FlagEmitted(expected[k].flag) <=> expected[k].on
           /\ Len(ret.flags) = Cardinality({k \in 1..4 : expected[k].on})
           /\ \A i, j \in 1..Len(ret.flags) :
                i < j => \E k, l \in 1..4 : /\ k < l
                                            /\ ret.flags[i] = expected[k].flag
                                            /\ ret.flags[j] = expected[l].flag

\* Two flags without the other two: one contributor and under one commit
\* in two weeks, on a repository pushed to within 180 days whose only
\* contributor has no more than 80% of the commits read.
C21_Witness ==
    /\ ActivityCalled
    /\ arg.in.outcome = "ok"
    /\ ret.daysSinceLastCommit <= 180
    /\ ret.contributorCount = 1
    /\ 2 * ret.totalCommits < arg.in.weeksSinceCreation
    /\ arg.in.weeksSinceCreation <= 26
    /\ ret.totalCommits > 0
    /\ 5 * arg.in.contributors[1] <= 4 * ret.totalCommits
    /\ ret.flags = <<SingleContributorFlag, LowActivityFlag>>

(***************************************************************************)
(* lib/github: parseRepoInput.  A repository input is a sequence of        *)
(* characters; UrlPrefix stands for the text "https://github.com/" (or     *)
(* "git@github.com:") as one symbol, which holds slashes and is no part of *)
(* an owner or repository name.  The inputs hold no ".git", so the final   *)
(* replace of the URL branch leaves the name as it is.                     *)
(***************************************************************************)
UrlPrefix == "https://github.com/"
Space == " "
Slash == "/"
Comma == ","
Newline == "\n"

IsSpace(c) == c \in {Space, Newline}
NameChar(c) == c # Slash /\ ~IsSpace(c) /\ c # UrlPrefix

\* String.prototype.trim
RECURSIVE trimStart(_)
trimStart(s) == IF s # <<>> /\ IsSpace(Head(s)) THEN trimStart(Tail(s)) ELSE s
RECURSIVE trimEnd(_)
trimEnd(s) ==
    IF s # <<>> /\ IsSpace(s[Len(s)]) THEN trimEnd(SubSeq(s, 1, Len(s) - 1)) ELSE s
trim(s) == trimEnd(trimStart(s))

\* The longest run of characters satisfying NameChar that starts at position i.
RECURSIVE NameRun(_, _)
NameRun(s, i) ==
    IF i <= Len(s) /\ NameChar(s[i]) THEN <<s[i]>> \o NameRun(s, i + 1) ELSE <<>>

\* The regular expression of the URL branch matched at the prefix in position i.
UrlMatchAt(s, i) ==
    LET owner == NameRun(s, i + 1)
        j == i + 1 + Len(owner)
        repo == NameRun(s, j + 1)
    IN IF /\ i <= Len(s) /\ s[i] = UrlPrefix
          /\ owner # <<>>
          /\ j <= Len(s) /\ s[j] = Slash
          /\ repo # <<>>
       THEN [owner |-> owner, repo |-> repo]
       ELSE Null

\* Positions of the slashes of s outside a URL prefix, and the number of
\* parts s.split("/") gives (a URL prefix holds three slashes).
SlashPositions(s) == {i \in 1..Len(s) : s[i] = Slash}
SplitParts(s) ==
    1 + Cardinality(SlashPositions(s))
      + 3 * Cardinality({i \in 1..Len(s) : s[i] = UrlPrefix})

parseRepoInput(input) ==
    LET s == trim(input)
        urlAt == {i \in 1..Len(s) : UrlMatchAt(s, i) # Null}
    IN IF urlAt # {}
       THEN UrlMatchAt(s, CHOOSE i \in urlAt : \A j \in urlAt : i <= j)
       ELSE IF SplitParts(s) = 2
       THEN LET k == CHOOSE i \in SlashPositions(s) : TRUE
                a == SubSeq(s, 1, k - 1)
                b == SubSeq(s, k + 1, Len(s))
            IN IF a # <<>> /\ b # <<>>
               THEN [owner |-> trim(a), repo |-> trim(b)]
               ELSE Null
       ELSE Null

MaxInputLen == 3

SeqsUpTo(S, n) == UNION {[1..k -> S] : k \in 0..n}

\* Repository inputs: short texts, bare or behind a URL prefix.
RepoInputs ==
    SeqsUpTo({"o", Slash, Space}, MaxInputLen) \cup
    {<<UrlPrefix>> \o s : s \in SeqsUpTo({"o", Slash, Space}, MaxInputLen)}

(***************************************************************************)
(* The v2 analyze route, POST.  Two variants of the handler exist: "ai"    *)
(* (with the AI code step and the owner lookup) and "plain" (without).     *)
(* A request is the record of the handler's locals; pc is the await the    *)
(* handler is suspended at, and each operator below runs it from one       *)
(* await to the next.  events is the history of what the handler did.      *)
(***************************************************************************)
Variants == {"ai", "plain"}

OptionFlags == {"forkAnalysis", "activityMetrics", "securityScan", "aiCodeDetection"}

\* An options object: any of the flags, each true or false, or absent.
OptionSets == UNION {[D -> BOOLEAN] : D \in SUBSET OptionFlags}

\* options.flag !== false
Selected(options, flag) == ~(Has(options, flag) /\ options[flag] = FALSE)

\* options.flag (truthy)
Enabled(options, flag) == Has(options, flag) /\ options[flag] = TRUE

Malformed == [kind |-> "malformed"]

BadRequest == [status |-> 400, error |-> "Invalid repo. Use owner/repo or a GitHub URL."]
RateLimited ==
    [status |-> 429,
     error |-> "GitHub API rate limit exceeded. Please add a GITHUB_TOKEN environment variable for higher limits.",
     rateLimit |-> TRUE]
NotFound == [status |-> 404, error |-> "Repository not found or API error occurred."]
InternalError == [status |-> 500, error |-> "Internal server error during analysis."]

ErrorStub(name) ==
    [error |-> CASE name = "fork" -> "Fork analysis failed"
                 [] name = "activity" -> "Activity analysis failed"
                 [] name = "security" -> "Security analysis failed"
                 [] name = "aiCode" -> "AI code analysis failed"]

OriginalRecommendation ==
    <<"Original", "repository", "(", "not", "a", "fork", ")", "-", "good", "sign",
      "of", "authenticity">>
HighOriginalityRecommendation(n) ==
    <<"High", "originality", "score", "(", ToString(n), "%", ")", "-",
      "substantial", "work", "on", "top", "of", "parent">>
ExcellentHealthRecommendation(n) ==
    <<"Excellent", "health", "score", "(", ToString(n), "/100", ")", "-",
      "active", "development">>
StrongBaseRecommendation(n) ==
    <<"Strong", "contributor", "base", "with", ToString(n), "contributors">>
LowSecurityFlag(n) ==
    <<"Low", "security", "score", "(", ToString(n), "/100", ")", "-", "review",
      "carefully">>
HighAiFlag(n) ==
    <<"High", "AI-generated", "code", "likelihood", "(", ToString(n), "/100", ")",
      "-", "possible", "low-effort", "project">>

Event(r, e) == [r EXCEPT !.events = @ \o <<e>>]

Respond(r, resp) ==
    [Event(r, <<"respond">>) EXCEPT !.pc = "done", !.response = resp]

\* The innovation score of the report.
ClampScore_NoFloor(x) == Max(0, Min(100, x))

\* Math.max(1, Math.min(100, x))
ClampScore(x) == Max(1, Min(100, x))

InnovationScoreV2(variant, analyses) ==
    LET s0 == 50
        s1 == IF Has(analyses, "fork")
              THEN LET forkData == analyses.fork
                   IN IF Truthy(forkData, "isFork") /\ NumTruthy(forkData, "originalityScore")
                      THEN RoundDiv(forkData.originalityScore * 6 + s0 * 4, 10)
                      ELSE IF ~Truthy(forkData, "isFork") THEN s0 + 20 ELSE s0
              ELSE s0
        s2 == IF Has(analyses, "activity") /\ NumTruthy(analyses.activity, "healthScore")
              THEN RoundDiv(s1 * 10 + analyses.activity.healthScore * 3, 10)
              ELSE s1
        s3 == IF Has(analyses, "security") /\ NumTruthy(analyses.security, "securityScore")
              THEN RoundDiv(s2 * 10 + analyses.security.securityScore * 2, 10)
              ELSE s2
        s4 == IF /\ variant = "ai"
                 /\ Has(analyses, "aiCode")
                 /\ NumTruthy(analyses.aiCode, "aiGeneratedScore")
              THEN s3 - RoundDiv(analyses.aiCode.aiGeneratedScore * 25, 100)
              ELSE s3
    IN ClampScore(s4)

\* Severity defaulting to low, medium only by keyword.
Severity_DefaultLow(flag) ==
    LET lower == LowerMsg(flag)
    IN IF \/ includes(lower, <<"scam">>)
          \/ includes(lower, <<"lazy", "fork">>)
          \/ includes(lower, <<"unresolved", "security">>)
       THEN "high"
       ELSE IF \/ includes(lower, <<"inactive">>)
               \/ includes(lower, <<"single", "contributor">>)
       THEN "medium"
       ELSE "low"

\* Severity of a red flag, by keyword in the lower-cased message.
Severity(flag) ==
    LET lower == LowerMsg(flag)
    IN IF \/ includes(lower, <<"scam">>)
          \/ includes(lower, <<"lazy", "fork">>)
          \/ includes(lower, <<"unresolved", "security">>)
       THEN "high"
       ELSE "medium"

\* Formatting that keeps the first of equal messages only.
FormatFlags_Deduplicated(allFlags) ==
    LET kept == {i \in 1..Len(allFlags) : \A j \in 1..(i - 1) : allFlags[j] # allFlags[i]}
        at(k) == CHOOSE i \in kept : Cardinality({j \in kept : j <= i}) = k
    IN [k \in 1..Cardinality(kept) |->
          [severity |-> Severity(allFlags[at(k)]), message |-> allFlags[at(k)]]]

FormatFlags(allFlags) ==
    [i \in 1..Len(allFlags) |-> [severity |-> Severity(allFlags[i]), message |-> allFlags[i]]]

\* From the end of the last analyzer step to the response.
Finish(r) ==
    LET innovationScore == InnovationScoreV2(r.variant, r.analyses)
        formattedFlags == FormatFlags(r.allFlags)
        report ==
            IF r.variant = "ai"
            THEN [status |-> 200, version |-> "2.0", repo |-> r.repoData,
                  owner |-> r.ownerData, analyses |-> r.analyses,
                  innovationScore |-> innovationScore, redFlags |-> formattedFlags,
                  recommendations |-> r.allRecommendations]
            ELSE [status |-> 200, version |-> "2.0", repo |-> r.repoData,
                  analyses |-> r.analyses,
                  innovationScore |-> innovationScore, redFlags |-> formattedFlags,
                  recommendations |-> r.allRecommendations]
    IN Respond(Event(r, <<"aggregate">>), report)

Await(r, stage) == [Event(r, <<"invoke", stage>>) EXCEPT !.pc = stage]

\* The AI step entered whatever the option says.
EnterAi_Always(r) ==
    IF r.variant = "ai" THEN Await(r, "aiCode") ELSE Finish(r)

EnterAi(r) ==
    IF r.variant = "ai" /\ Enabled(r.options, "aiCodeDetection")
    THEN Await(r, "aiCode") ELSE Finish(r)

EnterSecurity(r) ==
    IF Selected(r.options, "securityScan") THEN Await(r, "security") ELSE EnterAi(r)

EnterActivity_Skip(r) == EnterSecurity(r)

EnterActivity(r) ==
    IF Selected(r.options, "activityMetrics") THEN Await(r, "activity") ELSE EnterSecurity(r)

EnterFork(r) ==
    IF Selected(r.options, "forkAnalysis") THEN Await(r, "fork") ELSE EnterActivity(r)

\* The section of an analyzer that returned `out` or threw.
Section_Dropped(name, out) == IF out = Throw THEN Throw ELSE out

Section(name, out) == IF out = Throw THEN ErrorStub(name) ELSE out

\* analyses[name] = section, both for a result and for an error stub.
Record(r, name, out) ==
    IF Section(name, out) = Throw THEN Event(r, <<"settled", name>>)
    ELSE [Event(r, <<"settled", name>>) EXCEPT
            !.analyses = (name :> Section(name, out)) @@ @]

\* Resumed with the request body: parse the repository input.
BodyRead(r) ==
    IF r.body = Malformed THEN Respond(r, InternalError)
    ELSE LET repoInput == IF Has(r.body, "repo") THEN trim(r.body.repo) ELSE <<>>
             options == IF Has(r.body, "options") THEN r.body.options ELSE <<>>
             parsed == parseRepoInput(repoInput)
             r1 == [Event(r, <<"parse">>) EXCEPT !.options = options, !.parsed = parsed]
         IN IF parsed = Null THEN Respond(r1, BadRequest)
            ELSE [Event(r1, <<"invoke", "fetch">>) EXCEPT !.pc = "fetch"]

\* The rejection of the lookup: none when every lookup succeeded, else the
\* error of a lookup that failed (Promise.all rejects with the first one).
Rejections(repoOutcome, ownerOutcome) ==
    IF repoOutcome = "ok" /\ ownerOutcome = "ok" THEN {"none"}
    ELSE {repoOutcome, ownerOutcome} \ {"ok"}

\* Resumed with the outcome of the repository (and owner) lookup; `rejection` is
\* "none", or "403" for an error whose status is 403, or "other".
FetchSettled_Continue(r, rejection) ==
    EnterFork([Event(r, <<"settled", "fetch">>) EXCEPT
                  !.repoData = [full_name |-> r.parsed],
                  !.ownerData = [login |-> r.parsed.owner]])

FetchSettled(r, rejection) ==
    IF rejection = "none"
    THEN EnterFork([Event(r, <<"settled", "fetch">>) EXCEPT
                       !.repoData = [full_name |-> r.parsed],
                       !.ownerData = [login |-> r.parsed.owner]])
    ELSE IF rejection = "403" THEN Respond(Event(r, <<"failed", "fetch">>), RateLimited)
    ELSE Respond(Event(r, <<"failed", "fetch">>), NotFound)

\* Resumed with the result (or the throw) of analyzeFork.
ForkSettled(r, out) ==
    LET r1 == Record(r, "fork", out)
        r2 == IF out = Throw THEN r1
              ELSE IF out.isFork /\ out.risk = "high"
              THEN [r1 EXCEPT !.allFlags = Append(@, out.message)]
              ELSE IF out.isFork /\ out.risk = "medium"
              THEN [r1 EXCEPT !.allFlags = Append(@, out.message)]
              ELSE IF ~out.isFork
              THEN [r1 EXCEPT !.allRecommendations = Append(@, OriginalRecommendation)]
              ELSE IF out.originalityScore # 0 /\ out.originalityScore > 70
              THEN [r1 EXCEPT !.allRecommendations =
                        Append(@, HighOriginalityRecommendation(out.originalityScore))]
              ELSE r1
    IN EnterActivity(r2)

\* Resumed with the result (or the throw) of analyzeActivity.
ActivitySettled(r, out) ==
    LET r1 == Record(r, "activity", out)
        r2 == IF out = Throw THEN r1
              ELSE [r1 EXCEPT
                      !.allFlags = @ \o out.flags,
                      !.allRecommendations = @ \o
                          (IF out.healthScore > 75
                           THEN <<ExcellentHealthRecommendation(out.healthScore)>>
                           ELSE <<>>) \o
                          (IF out.contributorCount > 10
                           THEN <<StrongBaseRecommendation(out.contributorCount)>>
                           ELSE <<>>)]
    IN EnterSecurity(r2)

\* Resumed with the result (or the throw) of analyzeSecurity.
SecuritySettled(r, out) ==
    LET r1 == Record(r, "security", out)
        r2 == IF out = Throw THEN r1
              ELSE [r1 EXCEPT
                      !.allFlags = @ \o out.flags \o
                          (IF out.securityScore < 50
                           THEN <<LowSecurityFlag(out.securityScore)>> ELSE <<>>),
                      !.allRecommendations = @ \o out.recommendations]
    IN EnterAi(r2)

\* Resumed with the result (or the throw) of analyzeAICode.
AiSettled(r, out) ==
    LET r1 == Record(r, "aiCode", out)
        r2 == IF out = Throw THEN r1
              ELSE [r1 EXCEPT
                      !.allFlags = @ \o out.flags \o
                          (IF out.aiGeneratedScore > 70
                           THEN <<HighAiFlag(out.aiGeneratedScore)>> ELSE <<>>),
                      !.allRecommendations = @ \o out.recommendations]
    IN Finish(r2)

\* What analyzeAICode may give: the route reads its score, flags and
\* recommendations only, and the texts of the latter two are opaque to it.
\* The flag list may hold the same text twice.
AiFlagText == <<"ai", "code", "flag">>
AiRecommendationText == <<"ai", "code", "recommendation">>

AiOutcomes ==
    {Throw} \cup
    {[kind |-> "result", aiGeneratedScore |-> a, flags |-> f,
      recommendations |-> c] :
        a \in {0, 50, 100},
        f \in {<<>>, <<AiFlagText, AiFlagText>>},
        c \in {<<>>, <<AiRecommendationText>>}}

\* The request bodies: unreadable, or an object with a repository input and
\* an options object, either of which may be missing.
Bodies ==
    {Malformed} \cup
    {[repo |-> t, options |-> o] : t \in RepoInputs, o \in OptionSets} \cup
    {[options |-> o] : o \in OptionSets} \cup
    {[repo |-> t] : t \in RepoInputs}

NewRequest(variant, body) ==
    [pc |-> "body", variant |-> variant, body |-> body, options |-> <<>>,
     parsed |-> Null, repoData |-> Null, ownerData |-> Null, inputs |-> <<>>, analyses |-> <<>>,
     allFlags |-> <<>>, allRecommendations |-> <<>>, response |-> None,
     events |-> <<>>]

\* The answers of GitHub the route is exercised with: a few of each analyzer's.
RouteForkInputs ==
    {i \in ForkInputs :
        \/ i.compare.outcome # "ok"
        \/ /\ i.compare.ahead_by \in {0, 10, MaxUniqueCommits}
           /\ i.compare.totalFiles = MaxFiles
           /\ i.compare.modifiedFiles \in {0, MaxFiles}}

RouteActivityInputs ==
    {i \in ActivityInputs :
        \/ i.outcome = "throws"
        \/ /\ i.daysSincePush \in {0, MaxDays}
           /\ i.weeksSinceCreation = MaxWeeks
           /\ i.commitsSince = MaxCommitsSince
           /\ i.contributors \in {Contributors(1, MaxTop), Contributors(MaxContributors, 1)}}

RouteSecurityInputs ==
    {i \in SecurityInputs :
        \/ i.outcome = "throws"
        \/ /\ i.openSecurity \in {0, MaxOpenSecurity}
           /\ i.closedSecurity = 0
           /\ i.open_issues_count = MaxOpenIssues
           /\ i.hasSolidityFiles /\ ~i.hasPackageJson /\ i.hasLanguages}

(***************************************************************************)
(* Spec: one request to the v2 route, from its body to its response.       *)
(***************************************************************************)
Init ==
    /\ rq \in {NewRequest(v, b) : v \in Variants, b \in Bodies}
    /\ arg = None
    /\ ret = None
    /\ PageIdle

Input(r, name, in) == [r EXCEPT !.inputs = (name :> in) @@ @]

ReadBody ==
    /\ rq.pc = "body"
    /\ rq' = BodyRead(rq)
    /\ UNCHANGED <<arg, ret, pageVars>>

FetchRepo ==
    /\ rq.pc = "fetch"
    /\ \E repoOutcome \in {"ok", "403", "other"},
          ownerOutcome \in IF rq.variant = "ai" THEN {"ok", "403", "other"} ELSE {"ok"} :
          \E rejection \in Rejections(repoOutcome, ownerOutcome) :
             rq' = FetchSettled(
                      Input(rq, "fetch", [repo |-> repoOutcome, owner |-> ownerOutcome,
                                          error |-> rejection]),
                      rejection)
    /\ UNCHANGED <<arg, ret, pageVars>>

ForkAnalysis ==
    /\ rq.pc = "fork"
    /\ \E in \in RouteForkInputs :
          rq' = ForkSettled(Input(rq, "fork", in), analyzeFork(in))
    /\ UNCHANGED <<arg, ret, pageVars>>

ActivityMetrics ==
    /\ rq.pc = "activity"
    /\ \E in \in RouteActivityInputs :
          rq' = ActivitySettled(Input(rq, "activity", in), analyzeActivity(in))
    /\ UNCHANGED <<arg, ret, pageVars>>

SecurityScan ==
    /\ rq.pc = "security"
    /\ \E in \in RouteSecurityInputs :
          rq' = SecuritySettled(Input(rq, "security", in), analyzeSecurity(in))
    /\ UNCHANGED <<arg, ret, pageVars>>

AiCodeDetection ==
    /\ rq.pc = "aiCode"
    /\ \E out \in AiOutcomes :
          rq' = AiSettled(Input(rq, "aiCode", out), out)
    /\ UNCHANGED <<arg, ret, pageVars>>

Next ==
    \/ ReadBody
    \/ FetchRepo
    \/ ForkAnalysis
    \/ ActivityMetrics
    \/ SecurityScan
    \/ AiCodeDetection

Spec == Init /\ [][Next]_vars

\* The integer nearest to n / d, halves upwards (d > 0, n >= 0).
Nearest(n, d) == CHOOSE k \in 0..(n + 1) : 2 * k * d <= 2 * n + d /\ 2 * n + d < 2 * (k + 1) * d

\* The steps of the innovation score that follow the fork step, as the
\* specification words them, from the score s the fork step left: the
\* activity, security and AI results that exist, then the clamp to [1,100].
AfterFork(s, analyses) ==
    LET withHealth ==
            IF Has(analyses, "activity") /\ Has(analyses.activity, "healthScore")
            THEN Nearest(10 * s + 3 * analyses.activity.healthScore, 10) ELSE s
        withSecurity ==
            IF Has(analyses, "security") /\ Has(analyses.security, "securityScore")
            THEN Nearest(10 * withHealth + 2 * analyses.security.securityScore, 10)
            ELSE withHealth
        withAi ==
            IF Has(analyses, "aiCode") /\ Has(analyses.aiCode, "aiGeneratedScore")
            THEN withSecurity - Nearest(25 * analyses.aiCode.aiGeneratedScore, 100)
            ELSE withSecurity
    IN IF withAi < 1 THEN 1 ELSE IF withAi > 100 THEN 100 ELSE withAi

\* The fork section is the result of a fork analysis that returned.
ForkReported(analyses) == Has(analyses, "fork") /\ Has(analyses.fork, "isFork")

(***************************************************************************)
(* Properties of the route.                                                *)
(***************************************************************************)
Analyzers == {"fork", "activity", "security"}

\* The option that selects the analyzer.
OptionOf(a) ==
    CASE a = "fork" -> "forkAnalysis"
      [] a = "activity" -> "activityMetrics"
      [] a = "security" -> "securityScan"

Pos(ev, e) == {i \in 1..Len(ev) : ev[i] = e}

Happened(e) == Pos(rq.events, e) # {}

\* Every occurrence of b has an occurrence of a before it.
Before(ev, a, b) == \A j \in Pos(ev, b) : \E i \in Pos(ev, a) : i < j

\* What the analyzer `a` gave for the input the request recorded for it.
Outcome(a) ==
    CASE a = "fork" -> analyzeFork(rq.inputs.fork)
      [] a = "activity" -> analyzeActivity(rq.inputs.activity)
      [] a = "security" -> analyzeSecurity(rq.inputs.security)
      [] a = "aiCode" -> rq.inputs.aiCode

Responded == rq.pc = "done"

\* C2: once the repository details are fetched, whichever of the fork,
\* activity and security analyzers throw, the response is the full report,
\* and each analyzer whose option is not false has its section in analyses:
\* its own result if it returned, {error: "<Name> analysis failed"} if it
\* threw; a selected section is never missing (the AI step, selected by a
\* true option, included).
C2_SectionsAlwaysPresent ==
    (Responded /\ Happened(<<"settled", "fetch">>)) =>
        /\ rq.response.status = 200
        /\ {"version", "repo", "analyses", "innovationScore", "redFlags",
            "recommendations"} \subseteq DOMAIN rq.response
        /\ \A a \in Analyzers :
              Selected(rq.options, OptionOf(a)) =>
                 /\ Has(rq.response.analyses, a)
                 /\ rq.response.analyses[a] =
                       IF Outcome(a) # Throw THEN Outcome(a)
                       ELSE [error |-> CASE a = "fork" -> "Fork analysis failed"
                                         [] a = "activity" -> "Activity analysis failed"
                                         [] a = "security" -> "Security analysis failed"]
        /\ \A a \in Analyzers :
              ~Selected(rq.options, OptionOf(a)) => ~Has(rq.response.analyses, a)
        /\ (rq.variant = "ai" /\ Enabled(rq.options, "aiCodeDetection")) =>
              /\ Has(rq.response.analyses, "aiCode")
              /\ rq.response.analyses.aiCode =
                    IF Outcome("aiCode") # Throw THEN Outcome("aiCode")
                    ELSE [error |-> "AI code analysis failed"]

\* All three analyzers selected and all three threw, and a report was sent.
C2_Witness ==
    /\ Responded
    /\ rq.response.status = 200
    /\ \A a \in Analyzers :
          /\ Selected(rq.options, OptionOf(a))
          /\ Has(rq.inputs, a)
          /\ Outcome(a) = Throw
          /\ Has(rq.response.analyses[a], "error")

\* C4: in one analysis the repository-details fetch has completed before
\* any analyzer is invoked, and every selected analyzer has completed, with
\* a result or with a recorded error stub, before the innovation score, the
\* red flags and the response are computed.
C4_EventsOrdered ==
    /\ \A a \in Analyzers \cup {"aiCode"} :
          Before(rq.events, <<"settled", "fetch">>, <<"invoke", a>>)
    /\ \A a \in Analyzers :
          (Happened(<<"aggregate">>) /\ Selected(rq.options, OptionOf(a))) =>
             /\ Before(rq.events, <<"invoke", a>>, <<"settled", a>>)
             /\ Before(rq.events, <<"settled", a>>, <<"aggregate">>)
             /\ Has(rq.analyses, a)
    /\ Before(rq.events, <<"settled", "fetch">>, <<"aggregate">>)
    /\ (Responded /\ rq.response.status = 200) =>
          /\ Happened(<<"aggregate">>)
          /\ Before(rq.events, <<"aggregate">>, <<"respond">>)

\* A report of three selected analyzers of which one threw.
C4_Witness ==
    /\ Responded
    /\ Happened(<<"aggregate">>)
    /\ \A a \in Analyzers : Selected(rq.options, OptionOf(a)) /\ Happened(<<"settled", a>>)
    /\ Has(rq.analyses.activity, "error")
    /\ ~Has(rq.analyses.fork, "error")

\* C6: when the lookup of the repository (or owner) details fails, the
\* response is an error, status 429 with rateLimit true if the error's
\* status is 403 and status 404 otherwise; no analyzer is invoked and the
\* response has no analyses, innovationScore, redFlags or recommendations.
C6_FetchFailureAborts ==
    (Has(rq.inputs, "fetch") /\ rq.inputs.fetch.error # "none") =>
        /\ Responded
        /\ Has(rq.response, "error")
        /\ IF rq.inputs.fetch.error = "403"
           THEN /\ rq.response.status = 429
                /\ Has(rq.response, "rateLimit")
                /\ rq.response.rateLimit = TRUE
           ELSE /\ rq.response.status = 404
                /\ ~Has(rq.response, "rateLimit")
        /\ \A a \in Analyzers \cup {"aiCode"} : ~Happened(<<"invoke", a>>)
        /\ ~Happened(<<"aggregate">>)
        /\ DOMAIN rq.response \cap
              {"analyses", "innovationScore", "redFlags", "recommendations"} = {}

\* The owner lookup hit the rate limit while the repository lookup succeeded.
C6_Witness ==
    /\ Responded
    /\ Has(rq.inputs, "fetch")
    /\ rq.inputs.fetch.repo = "ok"
    /\ rq.inputs.fetch.error = "403"
    /\ rq.response.status = 429

\* C9: a fork with no parent information gets originalityScore 50 and risk
\* medium; a fork whose comparison with the parent throws gets
\* originalityScore 10 with uniqueCommits, totalFiles and modifiedFiles 0.
\* In both cases analyzeFork returns a result, and the fork section of the
\* report is that result, not an error stub.
C9_DegradedForkDefaults ==
    (Responded /\ Has(rq.inputs, "fork") /\ rq.inputs.fork.details = "ok"
       /\ rq.inputs.fork.fork) =>
        LET in == rq.inputs.fork
            section == rq.response.analyses.fork
        IN /\ ~in.parent =>
                 /\ analyzeFork(in) # Throw
                 /\ ~Has(section, "error")
                 /\ section.isFork
                 /\ section.originalityScore = 50
                 /\ section.risk = "medium"
           /\ (in.parent /\ in.compare.outcome = "throws") =>
                 /\ analyzeFork(in) # Throw
                 /\ ~Has(section, "error")
                 /\ section.isFork
                 /\ section.originalityScore = 10
                 /\ section.uniqueCommits = 0
                 /\ section.totalFiles = 0
                 /\ section.modifiedFiles = 0

\* A report for a fork whose comparison with the parent threw.
C9_Witness ==
    /\ Responded
    /\ Has(rq.inputs, "fork")
    /\ rq.inputs.fork.parent
    /\ rq.inputs.fork.compare.outcome = "throws"
    /\ rq.response.status = 200
    /\ rq.response.analyses.fork.originalityScore = 10

\* The message holds the keyword, whatever the case of its letters.
Mentions(message, keyword) ==
    \E i \in 1..Len(message) :
        /\ i + Len(keyword) - 1 <= Len(message)
        /\ \A j \in 1..Len(keyword) : toLowerCase(message[i + j - 1]) = keyword[j]

\* C13: severity of a red flag of the v2 report is assigned by keyword in
\* the message, whatever the case: high when it contains "scam", "lazy fork"
\* or "unresolved security", medium for every other message (those with
\* "inactive" or "single contributor" included); no v2 red flag has severity
\* low or info.  The red flags are the collected flags, in order.
C13_SeverityByKeyword ==
    (Responded /\ rq.response.status = 200) =>
        /\ Len(rq.response.redFlags) = Len(rq.allFlags)
        /\ \A i \in 1..Len(rq.response.redFlags) :
            LET flag == rq.response.redFlags[i]
                high == \/ Mentions(flag.message, <<"scam">>)
                        \/ Mentions(flag.message, <<"lazy", "fork">>)
                        \/ Mentions(flag.message, <<"unresolved", "security">>)
            IN /\ flag.message = rq.allFlags[i]
               /\ flag.severity \in {"high", "medium"}
               /\ (high <=> flag.severity = "high")
               /\ (flag.message \in {InactiveFlag, SingleContributorFlag, LowActivityFlag,
                                     NoLicenseFlag, NoParentMessage}
                      => flag.severity = "medium")

\* A report with a lazy-fork flag and an unresolved-security flag (high) next
\* to an inactivity flag and a no-license flag (medium).
C13_Witness ==
    /\ Responded
    /\ rq.response.status = 200
    /\ \E i, j, k, l \in 1..Len(rq.response.redFlags) :
        /\ Mentions(rq.response.redFlags[i].message, <<"lazy", "fork">>)
        /\ rq.response.redFlags[i].severity = "high"
        /\ rq.response.redFlags[j].message = UnresolvedFlag(MaxOpenSecurity)
        /\ rq.response.redFlags[j].severity = "high"
        /\ rq.response.redFlags[k].message = InactiveFlag
        /\ rq.response.redFlags[k].severity = "medium"
        /\ rq.response.redFlags[l].message = NoLicenseFlag
        /\ rq.response.redFlags[l].severity = "medium"

\* The flag strings the analyzers and the handler emit for one request, in
\* emission order, from what each analyzer that ran gave.
Ran(a) == Has(rq.inputs, a) /\ Outcome(a) # Throw

ForkEmitted ==
    IF Ran("fork") /\ Outcome("fork").isFork /\ Outcome("fork").risk \in {"high", "medium"}
    THEN <<Outcome("fork").message>> ELSE <<>>

ActivityEmitted == IF Ran("activity") THEN Outcome("activity").flags ELSE <<>>

SecurityEmitted ==
    IF Ran("security")
    THEN Outcome("security").flags \o
         (IF Outcome("security").securityScore < 50
          THEN <<LowSecurityFlag(Outcome("security").securityScore)>> ELSE <<>>)
    ELSE <<>>

AiEmitted ==
    IF Ran("aiCode")
    THEN Outcome("aiCode").flags \o
         (IF Outcome("aiCode").aiGeneratedScore > 70
          THEN <<HighAiFlag(Outcome("aiCode").aiGeneratedScore)>> ELSE <<>>)
    ELSE <<>>

\* C22: the red flags of the v2 report are the emitted flag strings, one
\* entry per emitted string, in the order fork flag, activity flags,
\* security flags, low-security-score flag (then those of the AI step, when
\* it ran), each message the emitted string itself; nothing is dropped for
\* being equal to another entry.
C22_FlagsKeptInOrder ==
    (Responded /\ rq.response.status = 200) =>
        LET emitted == ForkEmitted \o ActivityEmitted \o SecurityEmitted \o AiEmitted
            redFlags == rq.response.redFlags
        IN /\ Len(redFlags) = Len(emitted)
           /\ \A i \in 1..Len(redFlags) : redFlags[i].message = emitted[i]

\* A report with a fork flag, activity flags, security flags and the
\* low-security-score flag in that order, followed by the same text twice.
C22_Witness ==
    /\ Responded
    /\ rq.response.status = 200
    /\ ForkEmitted # <<>> /\ Len(ActivityEmitted) > 1 /\ Len(SecurityEmitted) > 2
    /\ LET redFlags == rq.response.redFlags
           n == Len(redFlags)
       IN /\ n = 1 + Len(ActivityEmitted) + Len(SecurityEmitted) + 2
          /\ redFlags[1].message = Outcome("fork").message
          /\ redFlags[2].message = ActivityEmitted[1]
          /\ redFlags[n - 2].message =
                LowSecurityFlag(Outcome("security").securityScore)
          /\ redFlags[n - 1].message = redFlags[n].message

\* The recommendations the handler adds for one request, in order, from what
\* each analyzer that ran gave.
ForkRecommended ==
    IF ~Ran("fork") THEN <<>>
    ELSE LET out == Outcome("fork")
         IN IF out.isFork /\ out.risk \in {"high", "medium"} THEN <<>>
            ELSE IF ~out.isFork THEN <<OriginalRecommendation>>
            ELSE IF out.originalityScore > 70
            THEN <<HighOriginalityRecommendation(out.originalityScore)>>
            ELSE <<>>

ActivityRecommended ==
    IF ~Ran("activity") THEN <<>>
    ELSE LET out == Outcome("activity")
         IN (IF out.healthScore > 75
             THEN <<ExcellentHealthRecommendation(out.healthScore)>> ELSE <<>>) \o
            (IF out.contributorCount > 10
             THEN <<StrongBaseRecommendation(out.contributorCount)>> ELSE <<>>)

SecurityRecommended ==
    IF Ran("security") THEN Outcome("security").recommendations ELSE <<>>

AiRecommended == IF Ran("aiCode") THEN Outcome("aiCode").recommendations ELSE <<>>

\* The sections of the analyzers that returned a result.
Returned(analyses) ==
    [a \in {b \in DOMAIN analyses : Ran(b)} |-> analyses[a]]

\* The report owes nothing but sections to the analyzers that threw or were
\* not selected.
OnlyFromThoseThatRan ==
    LET report == rq.response
    IN /\ \A a \in DOMAIN report.analyses : Ran(a) => report.analyses[a] = Outcome(a)
       /\ LET emitted == ForkEmitted \o ActivityEmitted \o SecurityEmitted \o AiEmitted
          IN /\ Len(report.redFlags) = Len(emitted)
             /\ \A i \in 1..Len(emitted) : report.redFlags[i].message = emitted[i]
       /\ report.recommendations =
             ForkRecommended \o ActivityRecommended \o SecurityRecommended \o AiRecommended
       /\ report.innovationScore =
             InnovationScoreV2(rq.variant, Returned(report.analyses))

\* C27: in the v2 report, an analyzer that threw or was deselected
\* contributes nothing besides its section: the red flags, the
\* recommendations and the innovation score are those that the analyzers
\* which returned a result give, as if the other analyzers had not been run,
\* and the sections of the analyzers that returned are their results.
C27_AbsentContributesNothing ==
    (Responded /\ rq.response.status = 200) => OnlyFromThoseThatRan

\* The other variant of the route.
OtherVariant(variant) == IF variant = "ai" THEN "plain" ELSE "ai"

\* One resumption of a request of either variant with what the lookups and
\* the analyzers gave to the request at hand.
ResumeWith(r) ==
    CASE r.pc = "fetch" ->
            FetchSettled(Input(r, "fetch", rq.inputs.fetch), "none")
      [] r.pc = "fork" /\ Has(rq.inputs, "fork") ->
            ForkSettled(Input(r, "fork", rq.inputs.fork), Outcome("fork"))
      [] r.pc = "activity" /\ Has(rq.inputs, "activity") ->
            ActivitySettled(Input(r, "activity", rq.inputs.activity), Outcome("activity"))
      [] r.pc = "security" /\ Has(rq.inputs, "security") ->
            SecuritySettled(Input(r, "security", rq.inputs.security), Outcome("security"))
      [] OTHER -> r

\* The request of the given variant for the same body, served with the same
\* lookup and analyzer outcomes.
Replay(variant) ==
    ResumeWith(ResumeWith(ResumeWith(ResumeWith(BodyRead(NewRequest(variant, rq.body))))))

\* Both requests answered with a report, the same in the four parts.
SameReport(r, s) ==
    /\ r.pc = "done" /\ s.pc = "done"
    /\ r.response.status = 200 /\ s.response.status = 200
    /\ r.response.analyses = s.response.analyses
    /\ r.response.innovationScore = s.response.innovationScore
    /\ r.response.redFlags = s.response.redFlags
    /\ r.response.recommendations = s.response.recommendations

\* C28: when aiCodeDetection is not enabled, the v2 route with the AI step
\* and the v2 route without it give, for the same request and the same
\* outcomes of the fork, activity and security analyzers, reports with the
\* same analyses sections, the same innovationScore, the same red flags
\* (order, messages and severities) and the same recommendations.
C28_VariantsAgree ==
    (/\ Responded
     /\ rq.response.status = 200
     /\ ~Enabled(rq.options, "aiCodeDetection")) =>
        SameReport(rq, Replay(OtherVariant(rq.variant)))

\* A report of the route with the AI step, the option absent, the three
\* analyzers run, with red flags of both severities and recommendations,
\* that the route without the step gives too.
C28_Witness ==
    /\ Responded
    /\ rq.response.status = 200
    /\ rq.variant = "ai"
    /\ ~Has(rq.options, "aiCodeDetection")
    /\ Ran("fork") /\ Ran("activity") /\ Ran("security")
    /\ \E i, j \in 1..Len(rq.response.redFlags) :
          /\ rq.response.redFlags[i].severity = "high"
          /\ rq.response.redFlags[j].severity = "medium"
    /\ rq.response.recommendations # <<>>
    /\ SameReport(rq, Replay("plain"))

\* The positions of the report's red flags with the given message, and of
\* those with the given severity.
FlagsSaying(message) ==
    {i \in 1..Len(rq.response.redFlags) : rq.response.redFlags[i].message = message}

FlagsOfSeverity(severity) ==
    {i \in 1..Len(rq.response.redFlags) : rq.response.redFlags[i].severity = severity}

\* C29: in the v2 report, for the analyzers that returned a result: a fork
\* whose originalityScore is below 20 has exactly one red flag, its
\* message, of severity high (and the report has no other high flag than
\* that of the unresolved security issues); a repository with at least one
\* open security-labelled issue has a red flag of severity high; a fork of
\* medium risk has a red flag of severity medium; a fork of low risk has no
\* fork red flag.
C29_SeveritiesEndToEnd ==
    (Responded /\ rq.response.status = 200) =>
        /\ Ran("fork") =>
              LET out == Outcome("fork")
                  own == FlagsSaying(out.message)
              IN /\ (out.isFork /\ out.originalityScore < 20) =>
                        /\ Cardinality(own) = 1
                        /\ own \subseteq FlagsOfSeverity("high")
                        /\ \A i \in FlagsOfSeverity("high") \ own :
                              /\ Ran("security")
                              /\ rq.response.redFlags[i].message =
                                    UnresolvedFlag(rq.inputs.security.openSecurity)
                 /\ (out.isFork /\ out.risk = "medium") =>
                        /\ Cardinality(own) = 1
                        /\ own \subseteq FlagsOfSeverity("medium")
                 /\ out.risk = "low" => own = {}
        /\ (Ran("security") /\ rq.inputs.security.openSecurity > 0) =>
              \E i \in FlagsOfSeverity("high") :
                  rq.response.redFlags[i].message =
                      UnresolvedFlag(rq.inputs.security.openSecurity)

\* A report for a fork of originalityScore 0 with open security issues: two
\* high flags, the fork's and the security analyzer's, next to medium ones.
C29_Witness ==
    /\ Responded
    /\ rq.response.status = 200
    /\ Ran("fork") /\ Ran("security")
    /\ Outcome("fork").isFork
    /\ Outcome("fork").originalityScore = 0
    /\ rq.inputs.security.openSecurity > 0
    /\ Cardinality(FlagsOfSeverity("high")) = 2
    /\ FlagsSaying(HighRiskMessage(0)) \subseteq FlagsOfSeverity("high")
    /\ FlagsOfSeverity("medium") # {}

\* C18: the +20 original-repository bonus is added to the v2 innovation
\* score if and only if the fork analysis returned a result with isFork =
\* false; it is not added when the fork analysis threw (the fork section is
\* an error stub) or was deselected.  Stated for the reports whose fork
\* section is not the result of a fork: the score is the one the later steps
\* make of 70 with the bonus and of 50 without.
C18_BonusOnlyForOriginals ==
    (/\ Responded
     /\ rq.response.status = 200
     /\ ~(ForkReported(rq.response.analyses) /\ rq.response.analyses.fork.isFork)) =>
        LET analyses == rq.response.analyses
            original == ForkReported(analyses) /\ ~analyses.fork.isFork
        IN rq.response.innovationScore =
              AfterFork(IF original THEN 70 ELSE 50, analyses)

(***************************************************************************)
(* pow-algorithms: the catalog and detectPowAlgorithms.  The corpus is a   *)
(* sequence of characters.  A literal signature is the sequence of the     *)
(* characters of its pattern, `|` included.  A regex signature is its      *)
(* pattern parsed: the sequence of its alternatives, each the sequence of  *)
(* the literal pieces that `.*` separates (the catalog's patterns use no   *)
(* other operator, and at most one `.*` per alternative).                  *)
(***************************************************************************)
Chars(s) ==
    CASE s = "SHA256" -> <<"S", "H", "A", "2", "5", "6">>
      [] s = "sha256" -> <<"s", "h", "a", "2", "5", "6">>
      [] s = "SHA-256" -> <<"S", "H", "A", "-", "2", "5", "6">>
      [] s = "double" -> <<"d", "o", "u", "b", "l", "e">>
      [] s = "sha" -> <<"s", "h", "a">>
      [] s = "scrypt" -> <<"s", "c", "r", "y", "p", "t">>
      [] s = "SCRYPT" -> <<"S", "C", "R", "Y", "P", "T">>
      [] s = "ethash" -> <<"e", "t", "h", "a", "s", "h">>
      [] s = "Ethash" -> <<"E", "t", "h", "a", "s", "h">>
      [] s = "dag" -> <<"d", "a", "g">>
      [] s = "epoch" -> <<"e", "p", "o", "c", "h">>
      [] s = "hashimoto|Hashimoto" ->
           <<"h", "a", "s", "h", "i", "m", "o", "t", "o", "|", "H", "a", "s", "h", "i", "m", "o", "t", "o">>
      [] s = "randomx|RandomX" ->
           <<"r", "a", "n", "d", "o", "m", "x", "|", "R", "a", "n", "d", "o", "m", "X">>
      [] s = "RANDOMX" -> <<"R", "A", "N", "D", "O", "M", "X">>
      [] s = "equihash" -> <<"e", "q", "u", "i", "h", "a", "s", "h">>
      [] s = "Equihash" -> <<"E", "q", "u", "i", "h", "a", "s", "h">>
      [] s = "kawpow|KawPow" ->
           <<"k", "a", "w", "p", "o", "w", "|", "K", "a", "w", "P", "o", "w">>
      [] s = "ravencoin" -> <<"r", "a", "v", "e", "n", "c", "o", "i", "n">>
      [] s = "pow" -> <<"p", "o", "w">>
      [] s = "progpow" -> <<"p", "r", "o", "g", "p", "o", "w">>
      [] s = "blake2b" -> <<"b", "l", "a", "k", "e", "2", "b">>
      [] s = "Blake2b" -> <<"B", "l", "a", "k", "e", "2", "b">>
      [] s = "BLAKE2b" -> <<"B", "L", "A", "K", "E", "2", "b">>
      [] s = "blake256" -> <<"b", "l", "a", "k", "e", "2", "5", "6">>
      [] s = "lyra2|Lyra2" ->
           <<"l", "y", "r", "a", "2", "|", "L", "y", "r", "a", "2">>
      [] s = "lyra2re" -> <<"l", "y", "r", "a", "2", "r", "e">>
      [] s = "ghostrider|Ghostrider" ->
           <<"g", "h", "o", "s", "t", "r", "i", "d", "e", "r", "|", "G", "h", "o", "s", "t", "r", "i", "d", "e", "r">>
      [] s = "verthash|Verthash" ->
           <<"v", "e", "r", "t", "h", "a", "s", "h", "|", "V", "e", "r", "t", "h", "a", "s", "h">>
      [] s = "openzeppelin" ->
           <<"o", "p", "e", "n", "z", "e", "p", "p", "e", "l", "i", "n">>
      [] s = "OpenZeppelin" ->
           <<"O", "p", "e", "n", "Z", "e", "p", "p", "e", "l", "i", "n">>
      [] s = "ERC-20" -> <<"E", "R", "C", "-", "2", "0">>
      [] s = "ERC20" -> <<"E", "R", "C", "2", "0">>
      [] s = "IERC20" -> <<"I", "E", "R", "C", "2", "0">>
      [] s = "SafeMath" -> <<"S", "a", "f", "e", "M", "a", "t", "h">>
      [] s = "Ownable" -> <<"O", "w", "n", "a", "b", "l", "e">>
      [] s = "randomx" -> <<"r", "a", "n", "d", "o", "m", "x">>
      [] s = "kawpow" -> <<"k", "a", "w", "p", "o", "w">>
      [] s = "lyra2" -> <<"l", "y", "r", "a", "2">>
      [] s = "ghostrider" -> <<"g", "h", "o", "s", "t", "r", "i", "d", "e", "r">>
      [] s = "verthash" -> <<"v", "e", "r", "t", "h", "a", "s", "h">>
      [] s = "x" -> <<"x">>

POW_ALGORITHMS ==
    <<[id |-> "sha256", signatures |->
        <<[type |-> "regex", weight |-> 2,
           pattern |-> <<<<Chars("SHA256")>>, <<Chars("sha256")>>, <<Chars("SHA-256")>>>>],
          [type |-> "regex", weight |-> 3,
           pattern |-> <<<<Chars("double"), Chars("sha")>>,
                         <<Chars("sha"), Chars("double")>>>>],
          [type |-> "literal", weight |-> 0, pattern |-> Chars("scrypt")]>>],
      [id |-> "scrypt", signatures |->
        <<[type |-> "literal", weight |-> 3, pattern |-> Chars("scrypt")],
          [type |-> "literal", weight |-> 3, pattern |-> Chars("SCRYPT")]>>],
      [id |-> "ethash", signatures |->
        <<[type |-> "literal", weight |-> 3, pattern |-> Chars("ethash")],
          [type |-> "literal", weight |-> 3, pattern |-> Chars("Ethash")],
          [type |-> "regex", weight |-> 2,
           pattern |-> <<<<Chars("dag"), Chars("epoch")>>,
                         <<Chars("epoch"), Chars("dag")>>>>],
          [type |-> "literal", weight |-> 2, pattern |-> Chars("hashimoto|Hashimoto")]>>],
      [id |-> "randomx", signatures |->
        <<[type |-> "literal", weight |-> 3, pattern |-> Chars("randomx|RandomX")],
          [type |-> "literal", weight |-> 3, pattern |-> Chars("RANDOMX")]>>],
      [id |-> "equihash", signatures |->
        <<[type |-> "literal", weight |-> 3, pattern |-> Chars("equihash")],
          [type |-> "literal", weight |-> 3, pattern |-> Chars("Equihash")]>>],
      [id |-> "kawpow", signatures |->
        <<[type |-> "literal", weight |-> 3, pattern |-> Chars("kawpow|KawPow")],
          [type |-> "regex", weight |-> 2,
           pattern |-> <<<<Chars("ravencoin"), Chars("pow")>>, <<Chars("progpow")>>>>]>>],
      [id |-> "blake2b", signatures |->
        <<[type |-> "regex", weight |-> 2,
           pattern |-> <<<<Chars("blake2b")>>, <<Chars("Blake2b")>>, <<Chars("BLAKE2b")>>>>],
          [type |-> "literal", weight |-> 2, pattern |-> Chars("blake256")]>>],
      [id |-> "lyra2", signatures |->
        <<[type |-> "literal", weight |-> 3, pattern |-> Chars("lyra2|Lyra2")],
          [type |-> "literal", weight |-> 3, pattern |-> Chars("lyra2re")]>>],
      [id |-> "ghostrider", signatures |->
        <<[type |-> "literal", weight |-> 3, pattern |-> Chars("ghostrider|Ghostrider")]>>],
      [id |-> "verthash", signatures |->
        <<[type |-> "literal", weight |-> 3, pattern |-> Chars("verthash|Verthash")]>>]>>

\* Canonicalize of a regular expression with the i flag: the upper-case letter.
Canonicalize(c) ==
    LET lower == <<"a", "b", "c", "d", "e", "f", "g", "h", "i", "j", "k", "l", "m",
                   "n", "o", "p", "q", "r", "s", "t", "u", "v", "w", "x", "y", "z">>
        upper == <<"A", "B", "C", "D", "E", "F", "G", "H", "I", "J", "K", "L", "M",
                   "N", "O", "P", "Q", "R", "S", "T", "U", "V", "W", "X", "Y", "Z">>
    IN IF \E i \in 1..26 : lower[i] = c
       THEN upper[CHOOSE i \in 1..26 : lower[i] = c]
       ELSE c

\* The literal piece matches the text at position p, letters of either case.
MatchesAt(text, p, piece) ==
    /\ p + Len(piece) - 1 <= Len(text)
    /\ \A j \in 1..Len(piece) : Canonicalize(text[p + j - 1]) = Canonicalize(piece[j])

\* The position after the match of one alternative at p, or 0 when it does
\* not match there.  `.*` is greedy and does not cross a line terminator:
\* the second piece is matched at its last start on the line.
AlternativeEnd(text, p, alt) ==
    IF ~MatchesAt(text, p, alt[1]) THEN 0
    ELSE IF Len(alt) = 1 THEN p + Len(alt[1])
    ELSE LET from == p + Len(alt[1])
             starts == {q \in from..(Len(text) + 1) :
                          /\ \A k \in from..(q - 1) : text[k] # "\n"
                          /\ MatchesAt(text, q, alt[2])}
         IN IF starts = {} THEN 0
            ELSE (CHOOSE q \in starts : \A o \in starts : o <= q) + Len(alt[2])

\* The position after the match of the pattern at p (the first alternative
\* that matches there), or 0.
PatternEnd(text, p, alts) ==
    LET matching == {i \in 1..Len(alts) : AlternativeEnd(text, p, alts[i]) # 0}
    IN IF matching = {} THEN 0
       ELSE AlternativeEnd(text, p, alts[CHOOSE i \in matching : \A o \in matching : i <= o])

\* text.match(re) with the g flag, from lastIndex: the number of matches.
RECURSIVE MatchesFrom(_, _, _)
MatchesFrom(text, lastIndex, alts) ==
    LET found == {p \in lastIndex..Len(text) : PatternEnd(text, p, alts) # 0}
    IN IF found = {} THEN 0
       ELSE LET first == CHOOSE p \in found : \A o \in found : p <= o
            IN 1 + MatchesFrom(text, PatternEnd(text, first, alts), alts)

\* A literal signature counted once per occurrence.
signatureScore_PerOccurrence(text, sig) ==
    IF sig.type = "literal"
    THEN sig.weight * Cardinality({p \in 1..Len(text) :
                                     /\ p + Len(sig.pattern) - 1 <= Len(text)
                                     /\ SubSeq(text, p, p + Len(sig.pattern) - 1) = sig.pattern})
    ELSE sig.weight * Min(MatchesFrom(text, 1, sig.pattern), 3)

\* What one signature adds to the score of its algorithm.
signatureScore(text, sig) ==
    IF sig.type = "literal"
    THEN IF includes(text, sig.pattern) THEN sig.weight ELSE 0
    ELSE sig.weight * Min(MatchesFrom(text, 1, sig.pattern), 3)

RECURSIVE algorithmScore(_, _, _)
algorithmScore(text, signatures, done) ==
    IF done = Len(signatures) THEN 0
    ELSE signatureScore(text, signatures[done + 1])
         + algorithmScore(text, signatures, done + 1)

\* The list left as pushed.
sortByScore_Unsorted(list) == list

\* results.sort((a, b) => b.score - a.score): stable, larger scores first.
sortByScore(list) ==
    LET rank(i) == Cardinality({j \in 1..Len(list) :
                                  \/ list[j].score > list[i].score
                                  \/ list[j].score = list[i].score /\ j < i})
    IN [k \in 1..Len(list) |-> list[CHOOSE i \in 1..Len(list) : rank(i) = k - 1]]

detectPowAlgorithms(text) ==
    LET scored == [i \in 1..Len(POW_ALGORITHMS) |->
                      [algorithm |-> POW_ALGORITHMS[i].id,
                       score |-> algorithmScore(text, POW_ALGORITHMS[i].signatures, 0)]]
        \* score > 0 && !seen.has(algo.id)
        pushed == {i \in 1..Len(scored) :
                     /\ scored[i].score > 0
                     /\ ~\E j \in 1..(i - 1) :
                           scored[j].score > 0 /\ scored[j].algorithm = scored[i].algorithm}
        nth(k) == CHOOSE i \in pushed : Cardinality({j \in pushed : j < i}) = k - 1
    IN sortByScore([k \in 1..Cardinality(pushed) |-> scored[nth(k)]])

\* Math.min(1, (templateFiles / 3) / filesScanned), or 0 for no file, as
\* the fraction num / den.
templateRatio_NoCap(templateFiles, filesScanned) ==
    IF filesScanned = 0 THEN [num |-> 0, den |-> 1]
    ELSE [num |-> templateFiles, den |-> 3 * filesScanned]

templateRatio(templateFiles, filesScanned) ==
    IF filesScanned = 0 THEN [num |-> 0, den |-> 1]
    ELSE IF templateFiles >= 3 * filesScanned THEN [num |-> 1, den |-> 1]
    ELSE [num |-> templateFiles, den |-> 3 * filesScanned]

(***************************************************************************)
(* The v1 analyze route: the red flags and the innovation score computed   *)
(* from the metrics it collected.  A date is the number of days between    *)
(* it and now; a template similarity ratio is in hundredths.               *)
(***************************************************************************)
MetricNames == {"activity", "contributors", "popularity", "fork", "pow_scan"}

\* options.length ? new Set(options) : the default set
Want(options) == IF options # {} THEN options ELSE MetricNames

FewContributorsMessage == <<"Fewer", "than", "3", "contributors.">>
NoCommitsMessage(months) == <<"No", "commits", "in", ToString(months), "months.">>
ForkOfMessage == <<"Fork", "of", "parent.">>
TemplateMessage ==
    <<"High", "similarity", "to", "common", "crypto", "templates", "(", "e.g.",
      "ERC-20", ")", ".">>

\* The pow_scan metric of `templateFiles` signatures found in `filesScanned` files.
PowScan(templateFiles, filesScanned) ==
    LET ratio == templateRatio(templateFiles, filesScanned)
    IN [files_scanned |-> filesScanned,
        \* Math.round(templateRatio * 100) / 100, in hundredths
        template_similarity_ratio |-> RoundDiv(100 * ratio.num, ratio.den),
        high_template_similarity |-> 10 * ratio.num >= 9 * ratio.den]

\* The metrics object of the collected answers `in`.
Metrics(want, in) ==
    (IF "activity" \in want
     THEN "activity" :>
            (IF ~in.dated
             THEN [total_commits |-> in.totalCommits]
             ELSE [total_commits |-> in.totalCommits,
                   last_commit_date |-> in.lastCommitDays])
     ELSE <<>>) @@
    (IF "contributors" \in want
     THEN "contributors" :> [unique_contributors |-> in.contributors]
     ELSE <<>>) @@
    (IF "fork" \in want
     THEN "fork" :> [is_fork |-> in.fork, parent_full_name |-> in.fork /\ in.parent]
     ELSE <<>>) @@
    (IF "pow_scan" \in want
     THEN "pow_scan" :> PowScan(in.templateFiles, in.filesScanned)
     ELSE <<>>)

RedFlagsV1(metrics) ==
    (IF /\ Has(metrics, "activity")
        /\ Has(metrics.activity, "last_commit_date")
        /\ metrics.activity.last_commit_date >= 180
     THEN <<[severity |-> "high",
             message |-> NoCommitsMessage(metrics.activity.last_commit_date \div 30)]>>
     ELSE <<>>) \o
    (IF Has(metrics, "contributors") /\ metrics.contributors.unique_contributors < 3
     THEN <<[severity |-> "medium", message |-> FewContributorsMessage]>>
     ELSE <<>>) \o
    (IF /\ Has(metrics, "fork")
        /\ metrics.fork.is_fork
        /\ metrics.fork.parent_full_name
     THEN <<[severity |-> "info", message |-> ForkOfMessage]>>
     ELSE <<>>) \o
    (IF Has(metrics, "pow_scan") /\ metrics.pow_scan.high_template_similarity
     THEN <<[severity |-> "high", message |-> TemplateMessage]>>
     ELSE <<>>)

VerifyForkRecommendation ==
    <<"Verify", "this", "fork", "has", "meaningful", "changes", "vs", "the", "parent.">>
SubstantialHistoryRecommendation ==
    <<"Original", "repo", "with", "substantial", "history", "-", "positive", "signal.">>

\* The history entry from 40 commits on, the figure of the score's bonus.
RecommendationsV1_Over40(repoData, metrics) ==
    (IF Has(metrics, "fork") /\ metrics.fork.is_fork
     THEN <<VerifyForkRecommendation>> ELSE <<>>) \o
    (IF /\ ~repoData.fork
        /\ Has(metrics, "activity")
        /\ metrics.activity.total_commits > 40
     THEN <<SubstantialHistoryRecommendation>> ELSE <<>>)

\* The recommendations: repoData is the repository as fetchRepo gave it.
RecommendationsV1(repoData, metrics) ==
    (IF Has(metrics, "fork") /\ metrics.fork.is_fork
     THEN <<VerifyForkRecommendation>> ELSE <<>>) \o
    (IF /\ ~repoData.fork
        /\ Has(metrics, "activity")
        /\ metrics.activity.total_commits # 0
        /\ metrics.activity.total_commits > 50
     THEN <<SubstantialHistoryRecommendation>> ELSE <<>>)

\* Info flags counted with the medium ones.
CountSeverity_InfoAsMedium(redFlags, severity) ==
    Cardinality({i \in 1..Len(redFlags) :
                    \/ redFlags[i].severity = severity
                    \/ severity = "medium" /\ redFlags[i].severity = "info"})

CountSeverity(redFlags, severity) ==
    Cardinality({i \in 1..Len(redFlags) : redFlags[i].severity = severity})

InnovationScoreV1(metrics, redFlags) ==
    LET isFork == Has(metrics, "fork") /\ metrics.fork.is_fork
        totalCommits ==
            IF Has(metrics, "activity") THEN metrics.activity.total_commits ELSE 0
        s0 == 50
        s1 == IF isFork THEN s0 - 22 ELSE s0
        s2 == IF Has(metrics, "pow_scan")
              THEN IF metrics.pow_scan.high_template_similarity THEN s1 - 25
                   ELSE s1 - ((30 * metrics.pow_scan.template_similarity_ratio + 100)
                                 \div 200)
              ELSE s1
        s3 == IF totalCommits >= 80 THEN s2 + 14
              ELSE IF totalCommits >= 30 THEN s2 + 10
              ELSE IF totalCommits >= 10 THEN s2 + 5
              ELSE s2
        s4 == IF Has(metrics, "activity") /\ Has(metrics.activity, "last_commit_date")
              THEN LET days == metrics.activity.last_commit_date
                   IN IF days < 30 THEN s3 + 8
                      ELSE IF days < 90 THEN s3 + 5
                      ELSE IF days < 180 THEN s3 + 2
                      ELSE s3 - 8
              ELSE s3
        s5 == IF Has(metrics, "contributors")
              THEN LET n == metrics.contributors.unique_contributors
                   IN IF n >= 10 THEN s4 + 10
                      ELSE IF n >= 5 THEN s4 + 6
                      ELSE IF n >= 3 THEN s4 + 2
                      ELSE s4 - 8
              ELSE s4
        s6 == IF ~isFork /\ totalCommits > 40 THEN s5 + 5 ELSE s5
        s7 == s6 - CountSeverity(redFlags, "high") * 6
        s8 == s7 - CountSeverity(redFlags, "medium") * 2
    IN ClampScore(s8)

(***************************************************************************)
(* SpecScore: the two innovation scores, each applied to the sections or   *)
(* the metrics a request can have collected.                               *)
(***************************************************************************)
ScoreStep == 5

\* The scores 0..100 an analyzer can report, thinned to a grid with the ends.
ScoreGrid == {x \in 0..100 : x % ScoreStep = 0} \cup {0, 1, 99, 100}

\* A section of the report as the score reads it: absent, an error stub, or
\* a result with its score.
ForkSections ==
    {None, ErrorStub("fork"),
     [kind |-> "result", isFork |-> FALSE, originalityScore |-> 100]} \cup
    {[kind |-> "result", isFork |-> TRUE, originalityScore |-> o] : o \in ScoreGrid}

ActivitySections ==
    {None, ErrorStub("activity")} \cup
    {[kind |-> "result", healthScore |-> h] : h \in ScoreGrid}

SecuritySections ==
    {None, ErrorStub("security")} \cup
    {[kind |-> "result", securityScore |-> x] : x \in ScoreGrid}

AiSections(variant) ==
    IF variant = "plain" THEN {None}
    ELSE {None, ErrorStub("aiCode")} \cup
         {[kind |-> "result", aiGeneratedScore |-> a] : a \in ScoreGrid}

Analyses(fork, activity, security, aiCode) ==
    (IF fork = None THEN <<>> ELSE "fork" :> fork) @@
    (IF activity = None THEN <<>> ELSE "activity" :> activity) @@
    (IF security = None THEN <<>> ELSE "security" :> security) @@
    (IF aiCode = None THEN <<>> ELSE "aiCode" :> aiCode)

MAX_FILES == 20

TEMPLATE_SIGS ==
    <<"openzeppelin", "OpenZeppelin", "ERC-20", "ERC20", "IERC20", "SafeMath", "Ownable">>

V1Answers ==
    {[fork |-> f, parent |-> p, totalCommits |-> c, dated |-> b, lastCommitDays |-> d,
      contributors |-> n, templateFiles |-> t, filesScanned |-> m] :
        f \in BOOLEAN, p \in BOOLEAN,
        c \in {0, 10, 30, 40, 41, 50, 51, 80, PER_PAGE}, b \in BOOLEAN, d \in {0, 30, 90, 180},
        n \in {0, 2, 3, 5, 10}, t \in 0..Len(TEMPLATE_SIGS),
        m \in {0, 1, 3, MAX_FILES}}

InitScore ==
    /\ \/ \E v \in Variants, f \in ForkSections, a \in ActivitySections,
             x \in SecuritySections :
             \E g \in AiSections(v) :
                arg = [fn |-> "v2", variant |-> v, analyses |-> Analyses(f, a, x, g)]
       \/ \E o \in SUBSET (MetricNames \ {"popularity"}), in \in V1Answers :
             /\ in.parent => in.fork
             /\ in.totalCommits = 0 => ~in.dated
             /\ ~in.dated => in.lastCommitDays = 0
             /\ arg = [fn |-> "v1", repoData |-> [fork |-> in.fork],
                       metrics |-> Metrics(Want(o), in)]
    /\ ret = None
    /\ rq = IdleRq
    /\ PageIdle

ScoreV2 ==
    /\ ret = None
    /\ arg.fn = "v2"
    /\ ret' = [kind |-> "score",
               innovationScore |-> InnovationScoreV2(arg.variant, arg.analyses)]
    /\ UNCHANGED <<arg, rq, pageVars>>

ScoreV1 ==
    /\ ret = None
    /\ arg.fn = "v1"
    /\ ret' = [kind |-> "score",
               redFlags |-> RedFlagsV1(arg.metrics),
               recommendations |-> RecommendationsV1(arg.repoData, arg.metrics),
               innovationScore |->
                   InnovationScoreV1(arg.metrics, RedFlagsV1(arg.metrics))]
    /\ UNCHANGED <<arg, rq, pageVars>>

NextScore == ScoreV2 \/ ScoreV1

SpecScore == InitScore /\ [][NextScore]_vars

\* C1: for every combination of analyzer sections (a result, an error stub
\* or absent) and every originalityScore, healthScore and securityScore in
\* 0..100, the innovationScore of the v2 route is in [1,100], never 0; and
\* so is the innovationScore of the v1 route for every combination of its
\* metrics and red flags.
C1_InnovationScoreInRange ==
    ret # None =>
        /\ ret.innovationScore \in 1..100
        /\ ret.innovationScore # 0

\* Scored 1 by the v2 route with every signal at its least.
C1_Witness ==
    /\ ret # None
    /\ arg.fn = "v2"
    /\ Has(arg.analyses, "fork") /\ Has(arg.analyses, "aiCode")
    /\ Truthy(arg.analyses.fork, "isFork")
    /\ ret.innovationScore = 1

\* C17: with AI code detection not enabled the v2 innovation score is, for
\* every originalityScore, healthScore and securityScore in 0..100 (0
\* included): start at 50; if the fork analysis reports a fork with an
\* originality score, round(originalityScore x 0.6 + score x 0.4); if it
\* reports a non-fork, score + 20; then round(score + healthScore x 0.3) if
\* an activity result exists; then round(score + securityScore x 0.2) if a
\* security result exists; finally the clamp to [1,100].  Stated for the
\* fork sections that are a report of the fork analysis, or absent.
C17_ScoreWithoutAi ==
    (/\ ret # None
     /\ arg.fn = "v2"
     /\ ~Has(arg.analyses, "aiCode")
     /\ (Has(arg.analyses, "fork") => ForkReported(arg.analyses))) =>
        LET analyses == arg.analyses
            afterFork ==
                IF ~Has(analyses, "fork") THEN 50
                ELSE IF analyses.fork.isFork
                THEN Nearest(6 * analyses.fork.originalityScore + 4 * 50, 10)
                ELSE 50 + 20
        IN ret.innovationScore = AfterFork(afterFork, analyses)

\* The v1 route answered, and what it answered about.
V1Answered == ret # None /\ arg.fn = "v1"

Recommends(text) ==
    \E i \in 1..Len(ret.recommendations) : ret.recommendations[i] = text

\* C23: with the fork and activity metrics collected by the v1 route, the
\* recommendations hold the "verify this fork has meaningful changes" entry
\* iff the repository is a fork, and the "original repo with substantial
\* history" entry iff it is not a fork and total commits > 50; never both.
C23_RecommendationsV1 ==
    (V1Answered /\ Has(arg.metrics, "fork") /\ Has(arg.metrics, "activity")) =>
        /\ Recommends(VerifyForkRecommendation) <=> arg.repoData.fork
        /\ Recommends(SubstantialHistoryRecommendation) <=>
              (~arg.repoData.fork /\ arg.metrics.activity.total_commits > 50)
        /\ ~(Recommends(VerifyForkRecommendation)
             /\ Recommends(SubstantialHistoryRecommendation))
        /\ Len(ret.recommendations) <= 1

\* An original repository with 51 commits gets the history entry alone.
C23_Witness ==
    /\ V1Answered
    /\ Has(arg.metrics, "fork") /\ Has(arg.metrics, "activity")
    /\ ~arg.repoData.fork
    /\ arg.metrics.activity.total_commits = 51
    /\ ret.recommendations = <<SubstantialHistoryRecommendation>>

\* The terms of the v1 innovation score, from the metrics of the report:
\* ratio is the reported template_similarity_ratio, in hundredths.
V1Fork == Has(arg.metrics, "fork") /\ arg.metrics.fork.is_fork

V1Commits ==
    IF Has(arg.metrics, "activity") THEN arg.metrics.activity.total_commits ELSE 0

V1TemplatePenalty ==
    IF ~Has(arg.metrics, "pow_scan") THEN 0
    ELSE IF arg.metrics.pow_scan.high_template_similarity THEN 25
    ELSE Nearest(15 * arg.metrics.pow_scan.template_similarity_ratio, 100)

V1Volume ==
    CASE V1Commits >= 80 -> 14
      [] V1Commits >= 30 /\ V1Commits < 80 -> 10
      [] V1Commits >= 10 /\ V1Commits < 30 -> 5
      [] OTHER -> 0

V1Recency ==
    IF ~(Has(arg.metrics, "activity") /\ Has(arg.metrics.activity, "last_commit_date"))
    THEN 0
    ELSE LET days == arg.metrics.activity.last_commit_date
         IN CASE days < 30 -> 8
              [] days >= 30 /\ days < 90 -> 5
              [] days >= 90 /\ days < 180 -> 2
              [] OTHER -> -8

V1Breadth ==
    IF ~Has(arg.metrics, "contributors") THEN 0
    ELSE LET n == arg.metrics.contributors.unique_contributors
         IN CASE n >= 10 -> 10
              [] n >= 5 /\ n < 10 -> 6
              [] n >= 3 /\ n < 5 -> 2
              [] OTHER -> -8

V1FlagPenalty ==
    6 * Cardinality({i \in 1..Len(ret.redFlags) : ret.redFlags[i].severity = "high"})
    + 2 * Cardinality({i \in 1..Len(ret.redFlags) : ret.redFlags[i].severity = "medium"})

V1Listed ==
    50 - (IF V1Fork THEN 22 ELSE 0) - V1TemplatePenalty
       + V1Volume + V1Recency + V1Breadth - V1FlagPenalty

V1Clamped(x) == IF x < 1 THEN 1 ELSE IF x > 100 THEN 100 ELSE x

\* C24: the v1 innovation score starts at 50, subtracts a flat 22 for a
\* fork, subtracts either 25 (high template similarity flagged) or round(15
\* x ratio) otherwise, never both, adds the commit-volume, recency and
\* contributor-breadth tier adjustments, subtracts 6 per high-severity and 2
\* per medium-severity red flag collected, counts no info-severity flag, and
\* is rounded and clamped to [1,100]: these terms and no other.
C24_ScoreV1Listed ==
    V1Answered => ret.innovationScore = V1Clamped(V1Listed)

\* C24, with the term the code adds besides: 5 more when the fork metric
\* reports no fork (or was not collected) and total commits exceed 40.
C24_ScoreV1WithBonus ==
    V1Answered =>
        ret.innovationScore =
            V1Clamped(V1Listed + (IF ~V1Fork /\ V1Commits > 40 THEN 5 ELSE 0))

\* A fork with a parent (an info flag), a template penalty below 25, two
\* counted flags, and every tier signal collected.
C24_Witness ==
    /\ V1Answered
    /\ V1Fork
    /\ \E i \in 1..Len(ret.redFlags) : ret.redFlags[i].severity = "info"
    /\ Has(arg.metrics, "pow_scan")
    /\ V1TemplatePenalty \in 1..24
    /\ V1Volume = 14 /\ V1Recency = -8 /\ V1Breadth = -8
    /\ V1FlagPenalty = 8
    /\ ret.innovationScore = 50 - 22 - V1TemplatePenalty + 14 - 8 - 8 - 8

(***************************************************************************)
(* The pow_scan metric of the v1 route: the code files that have a         *)
(* download URL are read (each read succeeds), concatenated with a newline *)
(* after each, and the corpus is scanned for the catalog's signatures and  *)
(* the template signatures.  SpecScan applies it to lists of files.        *)
(***************************************************************************)
MAX_FILE_SIZE == 80000

\* The corpus of the files from the k-th on.
RECURSIVE combineFrom(_, _)
combineFrom(files, k) ==
    IF k > Len(files) THEN <<>>
    ELSE (IF ~files[k].download_url THEN <<>>
          ELSE (IF Len(files[k].text) > MAX_FILE_SIZE
                THEN SubSeq(files[k].text, 1, MAX_FILE_SIZE)
                ELSE files[k].text) \o <<"\n">>)
         \o combineFrom(files, k + 1)

\* From the list of code files to metrics.pow_scan; templateFiles and
\* templateRatio are the handler's locals.  An algorithm is named by its id.
scanFiles(codeFiles) ==
    LET files == SubSeq(codeFiles, 1, Min(Len(codeFiles), MAX_FILES))
        combined == CHOOSE text \in {combineFrom(files, 1)} : TRUE
        filesScanned == Cardinality({k \in 1..Len(files) : files[k].download_url})
        powResults == detectPowAlgorithms(combined)
        templateFiles ==
            Cardinality({i \in 1..Len(TEMPLATE_SIGS) :
                            includes(combined, Chars(TEMPLATE_SIGS[i]))})
    IN [kind |-> "scan",
        templateFiles |-> templateFiles,
        templateRatio |-> templateRatio(templateFiles, filesScanned),
        pow_scan |-> [algorithms |-> powResults] @@ PowScan(templateFiles, filesScanned)]

MaxRepeat == 4
MaxScanFiles == 3

PowWords == {"scrypt", "SCRYPT", "sha256", "SHA-256", "double", "ethash", "Blake2b",
             "blake256", "progpow", "randomx", "x"}

\* The ids of the catalog that are not among the words above.
IdWords == {"equihash", "kawpow", "blake2b", "lyra2", "ghostrider", "verthash"}

\* The word n times, a space between two occurrences.
Repeat(w, n) ==
    [i \in 1..(n * (Len(Chars(w)) + 1) - 1) |->
        IF i % (Len(Chars(w)) + 1) = 0 THEN " " ELSE Chars(w)[i % (Len(Chars(w)) + 1)]]

\* The template signatures numbered in S from the k-th on, a space after each.
RECURSIVE SignatureWords(_, _)
SignatureWords(S, k) ==
    IF k > Len(TEMPLATE_SIGS) THEN <<>>
    ELSE (IF k \in S THEN Chars(TEMPLATE_SIGS[k]) \o <<" ">> ELSE <<>>)
         \o SignatureWords(S, k + 1)

CodeFile(text) == [download_url |-> TRUE, text |-> text]

\* A file the listing gives no download URL for; its text is never read.
Unreadable == [download_url |-> FALSE, text |-> Chars("scrypt")]

\* Two runs of words, in one file or in two.
RunFiles(c) ==
    IF c.together
    THEN <<CodeFile(Repeat(c.w1, c.n1) \o <<" ">> \o Repeat(c.w2, c.n2))>>
    ELSE <<CodeFile(Repeat(c.w1, c.n1)), CodeFile(Repeat(c.w2, c.n2))>>

\* The chosen template signatures in the first of c.files files, the others
\* filler; after them a file without download URL when c.unreadable.
TemplateFiles(c) ==
    [k \in 1..c.files |->
        CodeFile(IF k = 1 THEN SignatureWords(c.sigs, 1) ELSE Chars("x"))]
    \o (IF c.unreadable THEN <<Unreadable>> ELSE <<>>)

InitScan ==
    /\ \/ \E w1 \in PowWords \cup IdWords, w2 \in PowWords, n1 \in 1..MaxRepeat,
             n2 \in 0..MaxRepeat, together \in BOOLEAN :
             LET c == [kind |-> "runs", w1 |-> w1, n1 |-> n1, w2 |-> w2, n2 |-> n2,
                       together |-> together]
             IN /\ w1 # w2
                /\ w1 \in IdWords => (w2 = "x" /\ n2 = 0 /\ together)
                /\ arg = [fn |-> "pow_scan", corpus |-> c, codeFiles |-> RunFiles(c)]
       \/ \E sigs \in SUBSET (1..Len(TEMPLATE_SIGS)), files \in 0..MaxScanFiles,
             unreadable \in BOOLEAN :
             LET c == [kind |-> "templates", sigs |-> sigs, files |-> files,
                       unreadable |-> unreadable]
             IN /\ files = 0 => sigs = {}
                /\ arg = [fn |-> "pow_scan", corpus |-> c, codeFiles |-> TemplateFiles(c)]
    /\ ret = None
    /\ rq = IdleRq
    /\ PageIdle

ScanFiles ==
    /\ ret = None
    /\ arg.fn = "pow_scan"
    /\ ret' = scanFiles(arg.codeFiles)
    /\ UNCHANGED <<arg, rq, pageVars>>

NextScan == ScanFiles

SpecScan == InitScan /\ [][NextScan]_vars

(***************************************************************************)
(* Properties of the scan, checked under SpecScan.  What a corpus holds is *)
(* known from the words it was written with.                               *)
(***************************************************************************)
Scanned == arg.fn = "pow_scan" /\ ret # None

\* Occurrences of the word w in the corpus.
Occurrences(w) ==
    IF arg.corpus.kind # "runs" THEN 0
    ELSE (IF arg.corpus.w1 = w THEN arg.corpus.n1 ELSE 0)
         + (IF arg.corpus.w2 = w THEN arg.corpus.n2 ELSE 0)

\* "double" and a word with "sha" stand on one line.
DoubleWithSha ==
    /\ arg.corpus.kind = "runs"
    /\ arg.corpus.together
    /\ arg.corpus.n2 > 0
    /\ "double" \in {arg.corpus.w1, arg.corpus.w2}
    /\ {arg.corpus.w1, arg.corpus.w2} \cap {"sha256", "SHA-256"} # {}

Capped(matches) == IF matches < 3 THEN matches ELSE 3
Once(w) == IF Occurrences(w) > 0 THEN 1 ELSE 0

CatalogIds ==
    <<"sha256", "scrypt", "ethash", "randomx", "equihash", "kawpow", "blake2b",
      "lyra2", "ghostrider", "verthash">>

\* The score the catalog's rules give an algorithm on the corpus: a literal
\* rule its weight once, a regex rule its weight for each match up to 3.
RuleScore(id) ==
    CASE id = "sha256" ->
            2 * Capped(Occurrences("sha256") + Occurrences("SHA-256"))
            + 3 * Capped(IF DoubleWithSha THEN 1 ELSE 0)
            + 0 * Once("scrypt")
      [] id = "scrypt" -> 3 * Once("scrypt") + 3 * Once("SCRYPT")
      [] id = "ethash" -> 3 * Once("ethash")
      [] id = "equihash" -> 3 * Once("equihash")
      [] id = "kawpow" -> 2 * Capped(Occurrences("progpow"))
      [] id = "blake2b" ->
            2 * Capped(Occurrences("Blake2b") + Occurrences("blake2b"))
            + 2 * Once("blake256")
      [] OTHER -> 0

\* The score of the algorithm in the list, 0 when it is not listed.
Listed(list, id) == {i \in 1..Len(list) : list[i].algorithm = id}
ListedScore(list, id) ==
    IF Listed(list, id) = {} THEN 0 ELSE list[CHOOSE i \in Listed(list, id) : TRUE].score

\* C14: detectPowAlgorithms scores each catalog algorithm as the sum over
\* its rules of the rule's weight once if a literal rule's pattern is a
\* substring of the corpus, however often it occurs, and weight x
\* min(matchCount, 3) for a regex rule; a corpus with the literal "scrypt"
\* three times and no other signature yields exactly one result, with id
\* "scrypt" and score 3.
C14_RuleScores ==
    Scanned =>
        /\ \A i \in 1..Len(CatalogIds) :
              ListedScore(ret.pow_scan.algorithms, CatalogIds[i]) = RuleScore(CatalogIds[i])
        /\ (/\ arg.corpus.kind = "runs"
            /\ arg.corpus.w1 = "scrypt" /\ arg.corpus.n1 = 3
            /\ (arg.corpus.w2 = "x" \/ arg.corpus.n2 = 0)
            => ret.pow_scan.algorithms = <<[algorithm |-> "scrypt", score |-> 3]>>)

\* "scrypt" three times in one file and nothing else.
C14_Witness ==
    /\ Scanned
    /\ arg.corpus.kind = "runs"
    /\ arg.corpus.w1 = "scrypt" /\ arg.corpus.n1 = 3 /\ arg.corpus.n2 = 0
    /\ arg.corpus.together
    /\ ret.pow_scan.algorithms = <<[algorithm |-> "scrypt", score |-> 3]>>

\* C26: for every algorithm of the catalog, a corpus that holds the
\* algorithm's name as source code writes it, its lower-case id ("randomx",
\* "kawpow", "lyra2", "ghostrider", "verthash", ...), makes
\* detectPowAlgorithms return that algorithm with a positive score.
C26_IdDetected ==
    Scanned =>
        \A i \in 1..Len(CatalogIds) :
            Occurrences(CatalogIds[i]) > 0 =>
                ListedScore(ret.pow_scan.algorithms, CatalogIds[i]) > 0

CatalogIndex(id) == CHOOSE i \in 1..Len(CatalogIds) : CatalogIds[i] = id

\* C15: the list detectPowAlgorithms returns contains exactly the catalog
\* algorithms whose score is nonzero, each at most once, sorted by score
\* descending with equal scores kept in catalog order.
C15_ResultsSorted ==
    Scanned =>
        LET list == ret.pow_scan.algorithms
        IN /\ \A i \in 1..Len(CatalogIds) :
                (RuleScore(CatalogIds[i]) # 0) <=> (Listed(list, CatalogIds[i]) # {})
           /\ \A i \in 1..Len(list) :
                \E k \in 1..Len(CatalogIds) : list[i].algorithm = CatalogIds[k]
           /\ \A i \in 1..Len(list), j \in 1..Len(list) :
                i < j =>
                  /\ list[i].algorithm # list[j].algorithm
                  /\ \/ list[i].score > list[j].score
                     \/ /\ list[i].score = list[j].score
                        /\ CatalogIndex(list[i].algorithm) < CatalogIndex(list[j].algorithm)

\* A later algorithm of the catalog listed before an earlier one that
\* scored less.
C15_Witness ==
    /\ Scanned
    /\ Len(ret.pow_scan.algorithms) = 2
    /\ ret.pow_scan.algorithms[1] = [algorithm |-> "ethash", score |-> 3]
    /\ ret.pow_scan.algorithms[2] = [algorithm |-> "sha256", score |-> 2]

\* The template signatures present in the corpus: those written into it,
\* and "ERC20" also as a part of "IERC20".
SignaturesPresent ==
    IF arg.corpus.kind # "templates" THEN {}
    ELSE {TEMPLATE_SIGS[k] : k \in arg.corpus.sigs}
         \cup (IF \E k \in arg.corpus.sigs : TEMPLATE_SIGS[k] = "IERC20"
               THEN {"ERC20"} ELSE {})

\* C16: the template similarity ratio is min(1, (number of the 7 boilerplate
\* signatures present in the corpus / 3) / filesScanned), is 0 when no file
\* was scanned, lies in [0,1], does not decrease with the number of
\* signatures present for a fixed file count, and high_template_similarity
\* is true exactly when the ratio is >= 0.90.  The ratio is the fraction
\* num / den.
C16_TemplateRatio ==
    (Scanned /\ arg.corpus.kind = "templates") =>
        LET present == Cardinality(SignaturesPresent)
            scanned == arg.corpus.files
            ratio == ret.templateRatio
        IN /\ ret.templateFiles = present
           /\ ret.pow_scan.files_scanned = scanned
           /\ ratio.den > 0 /\ ratio.num >= 0 /\ ratio.num <= ratio.den
           /\ (scanned = 0 => ratio.num = 0)
           /\ (scanned > 0 /\ present >= 3 * scanned => ratio.num = ratio.den)
           /\ (scanned > 0 /\ present < 3 * scanned
                  => ratio.num * 3 * scanned = present * ratio.den)
           /\ \A fewer \in 0..present :
                templateRatio(fewer, scanned).num * ratio.den
                    <= ratio.num * templateRatio(fewer, scanned).den
           /\ (ret.pow_scan.high_template_similarity <=> 10 * ratio.num >= 9 * ratio.den)

\* All seven signatures in two files: 7/6 capped at 1, flagged.
C16_Witness ==
    /\ Scanned
    /\ arg.corpus.kind = "templates"
    /\ arg.corpus.files = 2
    /\ ret.templateFiles = 7
    /\ ret.templateRatio = [num |-> 1, den |-> 1]
    /\ ret.pow_scan.template_similarity_ratio = 100
    /\ ret.pow_scan.high_template_similarity

(***************************************************************************)
(* File sampling: the directory walk and the reads of the scan route and   *)
(* of the pow_scan metric of the v1 route, which differ in their constants *)
(* only.  A listing is the sequence of items fetchRepoContent gives (empty *)
(* when the request fails); a file name is a sequence of characters, a     *)
(* path an opaque value.  A text is one character repeated: the record of  *)
(* the character and the length; the corpus is a sequence of such runs.    *)
(* The walk ends with the corpus and filesScanned; what the handlers make  *)
(* of the corpus is scanFiles above.                                       *)
(***************************************************************************)
SCAN_MAX_FILES == 25
SCAN_MAX_FILE_SIZE == 100000

CODE_EXT_V1 ==
    {<<".", "c">>, <<".", "c", "p", "p">>, <<".", "h">>, <<".", "h", "p", "p">>,
     <<".", "r", "s">>, <<".", "p", "y">>, <<".", "g", "o">>, <<".", "j", "s">>,
     <<".", "t", "s">>, <<".", "j", "a", "v", "a">>, <<".", "s", "o", "l">>,
     <<".", "v", "y">>, <<".", "v">>}

CODE_EXT_SCAN ==
    CODE_EXT_V1 \cup
    {<<".", "r", "k", "t">>, <<".", "m", "l">>, <<".", "h", "s">>,
     <<".", "z", "i", "g">>, <<".", "n", "i", "m">>, <<".", "d">>}

\* The constants of a route: the file cap, the size cap, the preferred
\* directories, the number of other directories and the code extensions.
RouteConstants(route) ==
    IF route = "scan"
    THEN [MAX_FILES |-> SCAN_MAX_FILES, MAX_FILE_SIZE |-> SCAN_MAX_FILE_SIZE,
          preferred |-> <<"src", "lib", "miner", "pow", "crypto", "internal">>,
          others |-> 3, CODE_EXT |-> CODE_EXT_SCAN]
    ELSE [MAX_FILES |-> MAX_FILES, MAX_FILE_SIZE |-> MAX_FILE_SIZE,
          preferred |-> <<"src", "lib", "contracts">>,
          others |-> 2, CODE_EXT |-> CODE_EXT_V1]

Range(s) == {s[i] : i \in 1..Len(s)}

\* String.prototype.toLowerCase, character by character.
toLowerCaseChars(s) ==
    LET lower == <<"a", "b", "c", "d", "e", "f", "g", "h", "i", "j", "k", "l", "m",
                   "n", "o", "p", "q", "r", "s", "t", "u", "v", "w", "x", "y", "z">>
        upper == <<"A", "B", "C", "D", "E", "F", "G", "H", "I", "J", "K", "L", "M",
                   "N", "O", "P", "Q", "R", "S", "T", "U", "V", "W", "X", "Y", "Z">>
    IN [k \in 1..Len(s) |->
          IF \E i \in 1..26 : upper[i] = s[k]
          THEN lower[CHOOSE i \in 1..26 : upper[i] = s[k]]
          ELSE s[k]]

\* name.slice(name.lastIndexOf(".")): from the last dot on, or the last
\* character of a name without dot (slice(-1)).
Extension(name) ==
    LET dots == {i \in 1..Len(name) : name[i] = "."}
    IN IF dots = {} THEN SubSeq(name, Len(name), Len(name))
       ELSE SubSeq(name, CHOOSE i \in dots : \A j \in dots : j <= i, Len(name))

IsCodeFile(route, i) ==
    /\ i.type = "file"
    /\ toLowerCaseChars(Extension(i.name)) \in RouteConstants(route).CODE_EXT

\* Directories in listing order, whatever the allowlist.
ToScan_ListingOrder(route, rootItems) ==
    LET dirItems == SelectSeq(rootItems, LAMBDA i : i.type = "dir")
        dirs == [k \in 1..Len(dirItems) |-> dirItems[k].path]
    IN <<"">> \o SubSeq(dirs, 1, Min(Len(dirs), RouteConstants(route).others))

\* The directories to list, from the root listing.
ToScan(route, rootItems) ==
    LET c == RouteConstants(route)
        dirItems == SelectSeq(rootItems, LAMBDA i : i.type = "dir")
        dirs == [k \in 1..Len(dirItems) |-> dirItems[k].path]
        present == SelectSeq(c.preferred, LAMBDA d : d \in Range(dirs))
        other == SelectSeq(dirs, LAMBDA d : d \notin Range(c.preferred))
    IN <<"">> \o present \o SubSeq(other, 1, Min(Len(other), c.others))

\* text.length, text.slice(0, n), and the text "\n".
TextLength(text) == text.len
slice(text, n) == [text EXCEPT !.len = Min(@, n)]
NewlineText == [ch |-> <<"\n">>, len |-> 1]

\* combined + text: the runs of the corpus, an empty text adding none.
Combined(combined, text) ==
    IF TextLength(text) = 0 THEN combined ELSE Append(combined, text)

\* The handler from the end of the walk or of a read: on to the next file
\* of toFetch that has a download URL, or to the end of the loop.
NextRead(r) ==
    LET rest == {k \in r.file..Len(r.toFetch) : r.toFetch[k].download_url}
    IN IF rest = {} THEN [r EXCEPT !.pc = "done", !.file = Len(r.toFetch) + 1]
       ELSE [r EXCEPT !.pc = "read",
                      !.file = CHOOSE k \in rest : \A j \in rest : k <= j]

\* Resumed with the root listing.
RootListed(r, rootItems) ==
    [r EXCEPT !.pc = "list", !.toScan = ToScan(r.route, rootItems), !.dir = 1]

\* Resumed with the listing of toScan[dir].
DirListed(r, items) ==
    LET c == RouteConstants(r.route)
        files == SelectSeq(items, LAMBDA i : IsCodeFile(r.route, i))
        codeFiles == r.codeFiles \o
                     [k \in 1..Len(files) |->
                        [path |-> files[k].path, download_url |-> files[k].download_url]]
        r1 == [r EXCEPT !.codeFiles = codeFiles,
                        !.visited = Append(@, r.toScan[r.dir])]
    IN IF Len(codeFiles) >= c.MAX_FILES \/ r.dir = Len(r.toScan)
       THEN NextRead([r1 EXCEPT
                        !.toFetch = SubSeq(codeFiles, 1, Min(Len(codeFiles), c.MAX_FILES)),
                        !.file = 1])
       ELSE [r1 EXCEPT !.dir = r.dir + 1]

\* Resumed with the text of toFetch[file].
FileRead(r, text) ==
    LET c == RouteConstants(r.route)
        kept == IF TextLength(text) > c.MAX_FILE_SIZE
                THEN slice(text, c.MAX_FILE_SIZE) ELSE text
    IN NextRead([r EXCEPT
                    !.combined = Combined(Combined(@, kept), NewlineText),
                    !.filesScanned = Append(@, r.toFetch[r.file].path),
                    !.fetched = Append(@, r.toFetch[r.file].path),
                    !.file = r.file + 1])

\* fetchRepoContent of the repository `tree`: tree.root the first time the
\* root is listed, tree.again the second, tree.dirs[d] for a directory.
fetchRepoContent(tree, dir) == IF dir = "" THEN tree.again ELSE tree.dirs[dir]

\* fetchFileContent: the text behind the download URL of the file at path.
fetchFileContent(tree, path) == tree.texts[path]

(***************************************************************************)
(* SpecSample: one walk over a repository tree by either route.            *)
(***************************************************************************)
MaxDirFiles == 13

DirOrders ==
    {<<>>, <<"lib", "src">>,
     <<"docs", "lib", "test", "src", "bin", "contracts", "zz", "miner">>}

\* The items of a directory: n code files, and when `extras` a file that is
\* no code, a file without dot, a .zig file, a code file without download
\* URL and (below the root) a sub-directory with a code file's name before
\* them.
FileItem(dir, id, name, url) ==
    [type |-> "file", name |-> name, path |-> <<dir, id>>, download_url |-> url]

ItemsOf(dir, n, extras) ==
    (IF extras
     THEN <<FileItem(dir, "readme", <<"R", ".", "m", "d">>, TRUE),
            FileItem(dir, "makefile", <<"M", "a", "k", "e">>, TRUE),
            FileItem(dir, "zig", <<"m", ".", "z", "i", "g">>, TRUE),
            FileItem(dir, "nourl", <<"n", ".", "c">>, FALSE)>> \o
          (IF dir = "" THEN <<>>
           ELSE <<[type |-> "dir", name |-> <<"d", ".", "c">>, path |-> <<dir, "sub">>,
                   download_url |-> FALSE]>>)
     ELSE <<>>) \o
    [k \in 1..n |->
        FileItem(dir, ToString(k), IF k % 2 = 1 THEN <<"a", ".", "c">>
                         ELSE <<"b", ".", "t", "a", "r", ".", "R", "S">>, TRUE)]

\* The length of the text of the file: with `big`, the first code file of
\* a directory is one character over the size cap and the second at it.
LengthOf(route, path, big) ==
    IF big /\ path[2] = "1" THEN RouteConstants(route).MAX_FILE_SIZE + 1
    ELSE IF big /\ path[2] = "2" THEN RouteConstants(route).MAX_FILE_SIZE
    ELSE IF path[2] \in {"3", "zig"} THEN 0
    ELSE 1

Tree(route, order, rootFiles, dirFiles, extras, big, againFails) ==
    LET rootItems ==
            ItemsOf("", rootFiles, extras) \o
            [k \in 1..Len(order) |->
                [type |-> "dir", name |-> <<order[k]>>, path |-> order[k],
                 download_url |-> FALSE]]
        ids == {ToString(k) : k \in 1..Max(rootFiles, dirFiles)}
               \cup {"readme", "makefile", "zig", "nourl"}
    IN [root |-> rootItems,
        again |-> IF againFails THEN <<>> ELSE rootItems,
        dirs |-> [d \in Range(order) |-> ItemsOf(d, dirFiles, extras)],
        texts |-> [p \in (Range(order) \cup {""}) \X ids |->
                      [ch |-> p, len |-> LengthOf(route, p, big)]]]

NewWalk(route) ==
    [pc |-> "root", route |-> route, toScan |-> <<>>, dir |-> 0, visited |-> <<>>,
     codeFiles |-> <<>>, toFetch |-> <<>>, file |-> 0, combined |-> <<>>,
     filesScanned |-> <<>>, fetched |-> <<>>]

InitSample ==
    /\ \E route \in {"scan", "v1"}, order \in DirOrders,
          dirFiles \in {0, 1, MaxDirFiles},
          extras \in BOOLEAN, big \in BOOLEAN, againFails \in BOOLEAN :
          \E rootFiles \in {0, 1, RouteConstants(route).MAX_FILES - 1,
                            RouteConstants(route).MAX_FILES + 1} :
          /\ rq = NewWalk(route)
          /\ arg = [fn |-> "sample",
                    tree |-> Tree(route, order, rootFiles, dirFiles, extras, big,
                                  againFails)]
    /\ ret = None
    /\ PageIdle

ListRoot ==
    /\ rq.pc = "root"
    /\ rq' = RootListed(rq, arg.tree.root)
    /\ UNCHANGED <<arg, ret, pageVars>>

ListDir ==
    /\ rq.pc = "list"
    /\ rq' = DirListed(rq, fetchRepoContent(arg.tree, rq.toScan[rq.dir]))
    /\ UNCHANGED <<arg, ret, pageVars>>

ReadFile ==
    /\ rq.pc = "read"
    /\ rq' = FileRead(rq, fetchFileContent(arg.tree, rq.toFetch[rq.file].path))
    /\ UNCHANGED <<arg, ret, pageVars>>

NextSample == ListRoot \/ ListDir \/ ReadFile

SpecSample == InitSample /\ [][NextSample]_vars

(***************************************************************************)
(* Properties of the sampling, checked under SpecSample.                   *)
(***************************************************************************)
Walked == rq.pc \in {"read", "done"}

\* The figures of the traversal policy, by route.
FileCap == IF rq.route = "scan" THEN 25 ELSE 20
OtherDirs == IF rq.route = "scan" THEN 3 ELSE 2
Allowlist == RouteConstants(rq.route).preferred

\* The directories of the root listing, in listing order.
RootDirs ==
    LET items == SelectSeq(arg.tree.root, LAMBDA i : i.type = "dir")
    IN [k \in 1..Len(items) |-> items[k].path]

IndexIn(s, x) == CHOOSE i \in 1..Len(s) : s[i] = x

Allowed(d) == d \in Range(Allowlist)

\* A directory the policy visits if the cap lets it: the root, an
\* allowlisted directory of the root, or one of the first OtherDirs others.
Candidate(d) ==
    \/ d = ""
    \/ /\ d \in Range(RootDirs)
       /\ \/ Allowed(d)
          \/ Cardinality({i \in 1..(IndexIn(RootDirs, d) - 1) : ~Allowed(RootDirs[i])})
                < OtherDirs

\* a comes before b in the policy's order.
Precedes(a, b) ==
    \/ a = "" /\ b # ""
    \/ /\ a # "" /\ b # ""
       /\ \/ Allowed(a) /\ Allowed(b) /\ IndexIn(Allowlist, a) < IndexIn(Allowlist, b)
          \/ Allowed(a) /\ ~Allowed(b)
          \/ /\ ~Allowed(a) /\ ~Allowed(b)
             /\ IndexIn(RootDirs, a) < IndexIn(RootDirs, b)

\* The code files of the visited directories, each named by the position of
\* its directory in the visit and its position in the listing.
ListingOf(j) == fetchRepoContent(arg.tree, rq.visited[j])

Taken(k) ==
    {p \in UNION {{<<j, i>> : i \in 1..Len(ListingOf(j))} : j \in 1..k} :
        IsCodeFile(rq.route, ListingOf(p[1])[p[2]])}

Earlier(p, q) == p[1] < q[1] \/ (p[1] = q[1] /\ p[2] <= q[2])

\* Those of the first FileCap files taken that have a download URL.
Fetchable ==
    LET all == Taken(Len(rq.visited))
    IN {p \in all : /\ Cardinality({q \in all : Earlier(q, p)}) <= FileCap
                    /\ ListingOf(p[1])[p[2]].download_url}

\* The corpus of the files at `paths`: of each its text up to the size cap,
\* then a newline.
RECURSIVE CorpusOf(_)
CorpusOf(paths) ==
    IF paths = <<>> THEN <<>>
    ELSE LET path == paths[Len(paths)]
             text == arg.tree.texts[path]
             cap == RouteConstants(rq.route).MAX_FILE_SIZE
             share == IF text.len > cap THEN cap ELSE text.len
         IN CorpusOf(SubSeq(paths, 1, Len(paths) - 1)) \o
            (IF share = 0 THEN <<>> ELSE <<[ch |-> path, len |-> share]>>) \o
            <<NewlineText>>

\* C25: the traversal policy of the file sampling.  The directories are
\* visited in the order root, allowlisted directories present at the root in
\* allowlist order, then at most N other root directories in listing order
\* (N = 3 scan, 2 v1), none skipped; the walk goes on only below the cap and
\* stops after the directory in which the cap is reached; at most MAX_FILES
\* files (25 scan, 20 v1) are fetched, the first of the visit that have a
\* download URL, and filesScanned holds exactly those, in order; the corpus
\* is, for each of them in order, at most MAX_FILE_SIZE characters of its
\* text followed by a newline.  The corpus is thereby a function of the
\* listings and the contents.
C25_TraversalPolicy ==
    (arg.fn = "sample" /\ rq.pc # "root") =>
        LET visited == rq.visited
        IN /\ \A i \in 1..Len(visited) :
                 /\ Candidate(visited[i])
                 /\ \A j \in 1..Len(visited) : i < j => Precedes(visited[i], visited[j])
                 /\ \A d \in Range(RootDirs) \cup {""} :
                       (Candidate(d) /\ Precedes(d, visited[i])) => d \in Range(visited)
           /\ \A k \in 1..(Len(visited) - 1) : Cardinality(Taken(k)) < FileCap
           /\ rq.pc = "list" => Cardinality(Taken(Len(visited))) < FileCap
           /\ Walked =>
                 \/ Cardinality(Taken(Len(visited))) >= FileCap
                 \/ \A d \in Range(RootDirs) \cup {""} : Candidate(d) => d \in Range(visited)
           /\ Len(rq.fetched) <= FileCap
           /\ Len(rq.filesScanned) <= FileCap
           /\ rq.filesScanned = rq.fetched
           /\ ~Walked => rq.filesScanned = <<>>
           /\ Walked =>
                 /\ \A n \in 1..Len(rq.filesScanned) :
                       \E p \in Fetchable :
                          /\ Cardinality({q \in Fetchable : Earlier(q, p)}) = n
                          /\ rq.filesScanned[n] = ListingOf(p[1])[p[2]].path
                 /\ rq.pc = "done" => Len(rq.filesScanned) = Cardinality(Fetchable)
                 /\ rq.combined = CorpusOf(rq.filesScanned)
                 /\ \A i \in 1..Len(rq.combined) :
                       rq.combined[i].len <= RouteConstants(rq.route).MAX_FILE_SIZE

\* A walk that stopped at the cap in the second allowlisted directory, the
\* other directories unvisited, with more files listed than the cap, a file
\* without download URL passed over and a text cut at the size cap.
C25_Witness ==
    /\ arg.fn = "sample"
    /\ rq.pc = "done"
    /\ rq.visited = <<"", "src", "lib">>
    /\ Len(RootDirs) = 8
    /\ Len(rq.codeFiles) > FileCap
    /\ Len(rq.filesScanned) \in 1..(FileCap - 1)
    /\ \E i \in 1..FileCap : ~rq.codeFiles[i].download_url
    /\ \E i \in 1..Len(rq.combined) :
          /\ rq.combined[i].len = RouteConstants(rq.route).MAX_FILE_SIZE
          /\ arg.tree.texts[rq.combined[i].ch].len > rq.combined[i].len

(***************************************************************************)
(* The compare page.  reposInput is the text of the textarea; analyzeRepos *)
(* splits it into lines and sends one request per line to the v2 route.    *)
(* units holds the requests of the last accepted batch, in input order.    *)
(***************************************************************************)
MAX_REPOS == 10

PageError(text) == [kind |-> "error", text |-> text]

IsSeparator(c) == c \in {Comma, Newline}

\* s.split(/[\n,]+/): the pieces of s between the runs of separators, with an
\* empty piece before a leading run and after a trailing one.
PieceStarts(s) ==
    {i \in 1..Len(s) : ~IsSeparator(s[i]) /\ (i = 1 \/ IsSeparator(s[i - 1]))}

PieceEnd(s, i) ==
    CHOOSE j \in i..Len(s) :
        /\ \A k \in i..j : ~IsSeparator(s[k])
        /\ (j = Len(s) \/ IsSeparator(s[j + 1]))

split(s) ==
    LET starts == PieceStarts(s)
        Nth(k) == CHOOSE i \in starts : Cardinality({j \in starts : j < i}) = k - 1
    IN (IF s = <<>> \/ IsSeparator(s[1]) THEN <<<<>>>> ELSE <<>>) \o
       [k \in 1..Cardinality(starts) |-> SubSeq(s, Nth(k), PieceEnd(s, Nth(k)))] \o
       (IF s # <<>> /\ IsSeparator(s[Len(s)]) THEN <<<<>>>> ELSE <<>>)

NonEmpty(line) == Len(line) > 0

\* .split(...).map(trim).filter(length > 0)
Lines(text) ==
    LET pieces == split(text)
    IN SelectSeq([i \in 1..Len(pieces) |-> trim(pieces[i])], NonEmpty)

\* The body the page posts for one line.
PageBody(repoInput) ==
    [repo |-> repoInput,
     options |-> [forkAnalysis |-> TRUE, activityMetrics |-> TRUE, securityScan |-> TRUE]]

\* One request served by the route from its body to its response, with the
\* answers `env` of GitHub.
Resume(r, env) ==
    CASE r.pc = "body" -> BodyRead(r)
      [] r.pc = "fetch" -> FetchSettled(Input(r, "fetch", env.fetch), env.fetch.error)
      [] r.pc = "fork" -> ForkSettled(Input(r, "fork", env.fork), analyzeFork(env.fork))
      [] r.pc = "activity" ->
            ActivitySettled(Input(r, "activity", env.activity),
                            analyzeActivity(env.activity))
      [] r.pc = "security" ->
            SecuritySettled(Input(r, "security", env.security),
                            analyzeSecurity(env.security))
      [] r.pc = "aiCode" -> AiSettled(Input(r, "aiCode", env.aiCode), env.aiCode)
      [] r.pc = "done" -> r

\* The request after k resumptions.
RECURSIVE Resumed(_, _, _)
Resumed(r, env, k) ==
    IF k = 0 THEN r
    ELSE Resumed(CHOOSE next \in {Resume(r, env)} : TRUE, env, k - 1)

\* Six awaits at most: the body, the fetch and the four analyzers.
RouteRun(variant, body, env) ==
    Resumed(CHOOSE r \in {NewRequest(variant, body)} : TRUE, env, 6)

\* The JSON body of a response, and res.ok.
JsonBody(response) == [f \in DOMAIN response \ {"status"} |-> response[f]]
Ok(response) == response.status >= 200 /\ response.status <= 299

\* The entry of a unit that failed.
Placeholder(repoInput, message) ==
    [repo |-> [full_name |-> repoInput, html_url |-> "", description |-> Null,
               stars |-> 0, forks |-> 0, language |-> Null],
     analyses |-> <<>>, innovationScore |-> 0, redFlags |-> <<>>, error |-> message]

\* The request the page sent for a line, as the route served it.
Request(u) == RouteRun("ai", PageBody(u.repoInput), u.outcome.env)

\* The entry of the request of one line, whose fetch threw or was answered
\* by the route.
UnitResult(u) ==
    IF u.outcome.network = "fails"
    THEN Placeholder(u.repoInput, "Request failed")
    ELSE LET response == Request(u).response
             data == JsonBody(response)
         IN IF ~Ok(response)
            THEN Placeholder(u.repoInput,
                             IF Has(data, "error") /\ data.error # ""
                             THEN data.error ELSE "Analysis failed")
            ELSE data

\* await Promise.all(promises): the entries of the units, in input order.
AllResults_Successful(us) ==
    LET Succeeded(u) == ~Has(UnitResult(u), "error")
        kept == SelectSeq(us, Succeeded)
    IN [i \in 1..Len(kept) |-> UnitResult(kept[i])]

AllResults(us) == [i \in 1..Len(us) |-> UnitResult(us[i])]

\* The size check of analyzeRepos.
TooMany_OffByOne(n) == n > MAX_REPOS + 1

TooMany(n) == n > MAX_REPOS

(***************************************************************************)
(* What is typed and what GitHub answers in SpecBatch.                     *)
(***************************************************************************)
MaxUnits == 5

RepoLine(i) == <<"o", Slash, ToString(i)>>

\* n lines, separated by a newline or by a comma and a space, in turn, with
\* a newline at the end.
RECURSIVE TextOf(_)
TextOf(n) ==
    IF n = 0 THEN <<>>
    ELSE TextOf(n - 1) \o RepoLine(n) \o
         (IF n % 2 = 1 THEN <<Newline>> ELSE <<Comma, Space>>)

\* Three entries that do not parse and, second, one that does.
BadText ==
    <<"x", Comma>> \o RepoLine(2) \o <<Newline>> \o RepoLine(3) \o
    <<Slash, "y", Comma, Space, UrlPrefix, "o">>

Texts ==
    {<<>>, <<Space, Newline, Comma, Space>>, BadText} \cup
    {TextOf(n) : n \in {1, MaxUnits, MAX_REPOS, MAX_REPOS + 1}}

FetchOk == [repo |-> "ok", owner |-> "ok", error |-> "none"]
FetchNotFound == [repo |-> "other", owner |-> "ok", error |-> "other"]

CleanEnv ==
    [fetch |-> FetchOk,
     fork |-> [details |-> "ok", fork |-> FALSE, parent |-> FALSE, compare |-> NoCompare],
     activity |-> [outcome |-> "ok", daysSincePush |-> 0, weeksSinceCreation |-> MaxWeeks,
                   commitsSince |-> MaxCommitsSince,
                   contributors |-> Contributors(MaxContributors, 1)],
     security |-> [outcome |-> "ok", openSecurity |-> 0, closedSecurity |-> 0,
                   open_issues_count |-> 0, license |-> TRUE, hasSolidityFiles |-> FALSE,
                   hasPackageJson |-> FALSE, hasLanguages |-> TRUE]]

ActivityThrowsEnv == [CleanEnv EXCEPT !.activity.outcome = "throws"]

Served(env) == [network |-> "ok", env |-> env]
NetworkFails == [network |-> "fails"]

NotFoundEnv == [CleanEnv EXCEPT !.fetch = FetchNotFound]

\* What the i-th request of a batch of n can meet.  In a batch of more than
\* MaxUnits only the first MaxUnits requests fail, and only by the network.
UnitOutcomes(n, i) ==
    IF n <= MaxUnits
    THEN {NetworkFails, Served(CleanEnv), Served(ActivityThrowsEnv), Served(NotFoundEnv)}
    ELSE IF i <= MaxUnits THEN {NetworkFails, Served(CleanEnv)}
    ELSE {Served(CleanEnv)}

InitBatch ==
    /\ PageIdle
    /\ rq = IdleRq
    /\ arg = None
    /\ ret = None

\* onChange of the textarea.
SetReposInput ==
    /\ \E t \in Texts : t # reposInput /\ reposInput' = t
    /\ UNCHANGED <<loading, error, results, units, rq, arg, ret>>

\* onClick of the button, which is disabled while loading: analyzeRepos up
\* to its await.
AnalyzeRepos ==
    /\ ~loading
    /\ LET lines == Lines(reposInput)
       IN IF Len(lines) = 0
          THEN /\ error' = PageError("Please enter at least one repository")
               /\ UNCHANGED <<results, loading, units>>
          ELSE IF TooMany(Len(lines))
          THEN /\ error' = PageError("Maximum 10 repositories at a time")
               /\ UNCHANGED <<results, loading, units>>
          ELSE /\ error' = Null
               /\ results' = <<>>
               /\ loading' = TRUE
               /\ units' = [i \in 1..Len(lines) |->
                               [repoInput |-> lines[i], state |-> "pending"]]
    /\ UNCHANGED <<reposInput, rq, arg, ret>>

\* The request of one line settles.
Settle ==
    /\ loading
    /\ \E i \in 1..Len(units) :
          /\ units[i].state = "pending"
          /\ \E outcome \in UnitOutcomes(Len(units), i) :
                units' = [units EXCEPT ![i] =
                             [repoInput |-> units[i].repoInput, state |-> "settled",
                              outcome |-> outcome]]
    /\ UNCHANGED <<reposInput, loading, error, results, rq, arg, ret>>

\* The list set as soon as one request has settled.
Publish_Early ==
    /\ loading
    /\ \E i \in 1..Len(units) : units[i].state = "settled"
    /\ results' = AllResults(SelectSeq(units, LAMBDA u : u.state = "settled"))
    /\ loading' = FALSE
    /\ UNCHANGED <<reposInput, error, units, rq, arg, ret>>

\* Promise.all resolved: setResults, then setLoading(false).
Publish ==
    /\ loading
    /\ \A i \in 1..Len(units) : units[i].state = "settled"
    /\ results' = AllResults(units)
    /\ loading' = FALSE
    /\ UNCHANGED <<reposInput, error, units, rq, arg, ret>>

NextBatch == SetReposInput \/ AnalyzeRepos \/ Settle \/ Publish

SpecBatch == InitBatch /\ [][NextBatch]_vars

(***************************************************************************)
(* SpecBatchFair: the page with a text typed, clicked any number of times; *)
(* every request issued settles in the end (fetch resolves or rejects),    *)
(* and the continuation of a resolved Promise.all is run.                  *)
(***************************************************************************)
InitBatchFair ==
    /\ reposInput \in Texts
    /\ loading = FALSE
    /\ error = Null
    /\ results = <<>>
    /\ units = <<>>
    /\ rq = IdleRq
    /\ arg = None
    /\ ret = None

NextBatchFair == AnalyzeRepos \/ Settle \/ Publish

\* The continuation of the resolved Promise.all as the loading flag shows
\* it.  Publish is the only step that sets loading to false and is enabled
\* exactly when loading holds and every unit has settled, so weak fairness
\* of this action on the loading flag is weak fairness of Publish.
Resolved ==
    /\ loading
    /\ \A i \in 1..Len(units) : units[i].state = "settled"
    /\ loading' = FALSE

SpecBatchFair ==
    InitBatchFair /\ [][NextBatchFair]_vars /\ WF_vars(Settle) /\ WF_loading(Resolved)

(***************************************************************************)
(* Properties of the compare page.                                         *)
(***************************************************************************)
Published == ~loading /\ units # <<>>

Failed(u) == u.outcome.network = "fails" \/ ~Ok(Request(u).response)

ErrorSections(report) ==
    {a \in DOMAIN report.analyses : Has(report.analyses[a], "error")}

\* The report of a repository whose request nothing disturbed.
CleanReport(repoInput) ==
    JsonBody(RouteRun("ai", PageBody(repoInput), CleanEnv).response)

\* C3: a batch of n lines, 1 <= n <= 10, analysed concurrently gives, for
\* every order in which the requests complete and every set of them that
\* fail (the request throws or the response is not OK), a results list of n
\* entries in input order: a failed request leaves an error placeholder for
\* its own repository, every other entry is the report its own request
\* returned.  When one analyzer throws for one repository, the report of
\* that repository has exactly one error section and the reports of the
\* other repositories are what they are without it.
C3_BatchResultsInOrder ==
    /\ loading => results = <<>>
    /\ Published =>
          /\ Len(units) \in 1..MAX_REPOS
          /\ Len(results) = Len(units)
          /\ \A i \in 1..Len(units) :
                LET u == units[i]
                    entry == results[i]
                IN /\ u.repoInput \in
                         {RepoLine(i), <<"x">>, RepoLine(i) \o <<Slash, "y">>,
                          <<UrlPrefix, "o">>}
                   /\ IF Failed(u)
                      THEN /\ Has(entry, "error")
                           /\ entry.repo.full_name = u.repoInput
                           /\ entry.analyses = <<>>
                           /\ entry.innovationScore = 0
                           /\ entry.redFlags = <<>>
                      ELSE /\ entry = JsonBody(Request(u).response)
                           /\ ~Has(entry, "error")
                           /\ entry.repo.full_name = parseRepoInput(RepoLine(i))
                   /\ u.outcome = Served(CleanEnv) /\ parseRepoInput(u.repoInput) # Null
                         => entry = CleanReport(u.repoInput)
                   /\ u.outcome = Served(ActivityThrowsEnv)
                      /\ parseRepoInput(u.repoInput) # Null
                         => /\ ErrorSections(entry) = {"activity"}
                            /\ entry.analyses.activity = [error |-> "Activity analysis failed"]
                            /\ entry.analyses.fork = CleanReport(u.repoInput).analyses.fork
                            /\ entry.analyses.security =
                                  CleanReport(u.repoInput).analyses.security

\* A batch of MaxUnits in which the activity analyzer threw for the second
\* repository and the last request failed, published.
C3_Witness ==
    /\ Published
    /\ Len(results) = MaxUnits
    /\ units[2].outcome = Served(ActivityThrowsEnv)
    /\ units[MaxUnits].outcome = NetworkFails
    /\ \A i \in 1..(MaxUnits - 1) : i # 2 => units[i].outcome = Served(CleanEnv)
    /\ ErrorSections(results[2]) = {"activity"}
    /\ results[MaxUnits].error = "Request failed"

ValidationErrors ==
    {PageError("Please enter at least one repository"),
     PageError("Maximum 10 repositories at a time")}

\* A request whose repo input does not parse is answered 400 before the
\* repository is fetched or an analyzer invoked.
UnparsableRejected ==
    \A i \in 1..Len(units) :
       (/\ units[i].state = "settled"
        /\ units[i].outcome.network = "ok"
        /\ parseRepoInput(units[i].repoInput) = Null) =>
           LET r == Request(units[i])
           IN /\ r.response.status = 400
              /\ Has(r.response, "error")
              /\ \A e \in {<<"invoke", "fetch">>, <<"settled", "fetch">>,
                           <<"invoke", "fork">>, <<"invoke", "activity">>,
                           <<"invoke", "security">>, <<"invoke", "aiCode">>,
                           <<"aggregate">>} : Pos(r.events, e) = {}

\* A click on a batch of no line or of more than 10 lines sets the error
\* and nothing else: no request is issued, results and loading stay.
BatchRejected ==
    (AnalyzeRepos /\ (Len(Lines(reposInput)) = 0 \/ Len(Lines(reposInput)) > 10)) =>
        /\ error' \in ValidationErrors
        /\ results' = results
        /\ loading' = loading
        /\ units' = units

\* C5: every validation error is rejected before any work starts: a request
\* whose repo input does not parse to an owner and a repository gets a 400
\* before the repository is fetched or an analyzer invoked, and a batch of
\* zero or of more than 10 entries is rejected before any request is
\* issued, with the previous results and the loading flag unchanged.
C5_ValidationBeforeWork ==
    /\ [](UnparsableRejected /\ Len(units) <= 10)
    /\ [][BatchRejected]_vars

\* A batch with unparsable entries was published, and then a batch of more
\* than 10 lines was rejected with those results still shown.
C5_Witness ==
    /\ Published
    /\ error = PageError("Maximum 10 repositories at a time")
    /\ Len(Lines(reposInput)) > 10
    /\ Len(results) = 4
    /\ \E i \in 1..Len(units) :
          /\ units[i].outcome.network = "ok"
          /\ parseRepoInput(units[i].repoInput) = Null
          /\ results[i].error = BadRequest.error

AllSettled == \A i \in 1..Len(units) : units[i].state = "settled"

\* A step that issues the requests of a batch.
Submitted ==
    /\ ~loading /\ loading'
    /\ Len(units') = Len(Lines(reposInput)) /\ Len(units') \in 1..MAX_REPOS
    /\ \A i \in 1..Len(units') : units'[i].state = "pending"
    /\ results' = <<>>

\* A step that ends a batch: every unit has settled, the list is set with
\* one entry per unit and loading is set to false.
Completed ==
    /\ loading /\ ~loading'
    /\ AllSettled /\ units' = units
    /\ Len(results') = Len(units)
    /\ \A i \in 1..Len(units) : results'[i] = UnitResult(units[i])

\* C30: after a valid submit on the compare page loading is true until
\* every unit has settled; while loading no results are shown (the list is
\* empty, never partial); loading changes and the results list is set only
\* by a submit, which empties the list, and by the one step that, with all
\* units settled, sets the list to all units' entries and loading to false;
\* and, every request settling in the end, loading returns to false,
\* whichever units failed and in whatever order they completed.
C30_LoadingUntilAllSettled ==
    /\ [](loading => (results = <<>> /\ units # <<>>))
    /\ [][(loading' # loading \/ results' # results) => (Submitted \/ Completed)]_vars
    /\ [][(loading /\ AllSettled) => Completed]_vars
    /\ (loading ~> (~loading /\ AllSettled /\ Len(results) = Len(units)))

\* A batch of MaxUnits published after its requests completed in an order
\* other than the input order is not observable in a state; the witness is
\* a batch in flight whose last unit settled (failed) before its first.
C30_Witness ==
    /\ loading
    /\ Len(units) = MaxUnits
    /\ units[1].state = "pending"
    /\ units[MaxUnits].state = "settled"
    /\ units[MaxUnits].outcome = NetworkFails
    /\ results = <<>>

====
